---------------------------- MODULE Spec2Model ----------------------------
(***************************************************************************)
(* Client-side data reconciliation and presentation layer of the          *)
(* ownership / retained-earnings dashboard.                                *)
(*                                                                         *)
(*   table variant : src/frontend/src/App.js (second App(), lines 653 ff.) *)
(*                   fetchData, updateRowAfterCorrection, filteredRows     *)
(*   flat variants : src/frontend/src/App.js (first App(), lines 55-180)   *)
(*                   and src/unnamed/part_001: filter without sort         *)
(*   PDF variant   : src/unnamed/part_000: pdfColumns, handleFileUpload,   *)
(*                   updateRowAfterCorrection, formatValue                 *)
(*                                                                         *)
(* Text is a sequence of one-character strings, so that trim, includes,    *)
(* parseFloat and string concatenation are computed character by           *)
(* character as the JavaScript does.  Undefined is a missing property.     *)
(***************************************************************************)
EXTENDS Integers, Sequences, FiniteSets, TLC

VARIABLES
  variant,         \* which App() is running: "flat", "table" or "pdf"
  ownershipFile,   \* body served for /foreign_ownership_data.json
  earningsCsv,     \* parsed rows of /api/reinvested_earnings_results.csv
  fetches,         \* fetch cycles (fetchData calls) still outstanding
  rows,            \* useState rows of the table variant
  search,          \* useState search
  loading,         \* useState loading
  corrections,     \* correction submissions, each awaiting its response or answered
  pdfColumns,      \* useState pdfColumns of the PDF variant
  selectedFiles,   \* useState selectedFiles
  showUploadConfirmation,
  uploading,       \* useState uploading
  uploads,         \* handleFileUpload calls awaiting their response
  resets,          \* handleReset calls awaiting the /api/refresh response
  stored,          \* localStorage item 'pdfColumns'
  showClearConfirmation,
  userExports,     \* useState userExports: the saved export files listed
  fileToDelete,    \* useState fileToDelete
  requests,        \* clear, export and delete requests awaiting their response
  evidenceModalOpen,  \* useState evidenceModalOpen
  evidenceData,    \* useState evidenceData
  evidenceLoading, \* useState evidenceLoading
  evidenceError,   \* useState evidenceError: whether the error text is set
  evidenceFetches, \* fetchEvidence calls awaiting their response
  clicked,         \* symbol of the row whose evidence button was clicked last
  submitted,       \* useState submitted of EvidenceModal
  notices,         \* alert() calls made by the handler that ran last
  lastOp           \* the handler that ran last, with its inputs

vars == <<variant, ownershipFile, earningsCsv, fetches, rows, search, loading,
          corrections, pdfColumns, selectedFiles, showUploadConfirmation,
          uploading, uploads, resets, stored, showClearConfirmation,
          userExports, fileToDelete, requests, evidenceModalOpen,
          evidenceData, evidenceLoading, evidenceError, evidenceFetches,
          clicked, submitted, notices, lastOp>>

\* State of the evidence modal
evidenceVars == <<evidenceModalOpen, evidenceData, evidenceLoading,
                  evidenceError, evidenceFetches, clicked>>

\* State of the clear-all dialog and of the export sidebar
exportVars == <<showClearConfirmation, userExports, fileToDelete, requests>>

\* State of the flat and table variants / state their fetch cycle and
\* corrections never touch
tableVars == <<variant, ownershipFile, earningsCsv, fetches, rows, search,
               evidenceVars, submitted>>
pdfVars == <<variant, pdfColumns, selectedFiles, showUploadConfirmation,
             uploading, uploads, stored, exportVars, evidenceVars, submitted>>

-----------------------------------------------------------------------------
(* Bounds of the model.                                                    *)

MaxOwn == 2        \* ownership records in one served batch
MaxEarn == 2       \* data rows in one served CSV
MaxFetches == 2    \* fetch cycles outstanding at once
MaxCorrections == 1 \* correction submissions made in one run
MaxViewRows == 5   \* rows of a collection whose view is derived
MaxBatch == 11     \* ownership records in a batch whose row ids are compared
MaxFiles == 2      \* files in one selection / results in one upload response
MaxColumns == 2    \* entries of pdfColumns before an upload is started
MaxRequests == 1   \* clear, export and delete requests outstanding at once
MaxEvidenceFetches == 2  \* fetchEvidence calls outstanding at once

-----------------------------------------------------------------------------
(* JavaScript values.                                                      *)

Undefined == <<"#undefined">>
Null == <<"#null">>

\* JS truthiness of a string-or-missing value: undefined, null and "" are
\* falsy.
Truthy(v) == v # Undefined /\ v # Null /\ v # <<>>

\* a || b
OrElse(a, b) == IF Truthy(a) THEN a ELSE b

IsWhiteSpace(c) == c = " "

Digits == {"0", "1", "2", "3", "4", "5", "6", "7", "8", "9"}

DigitVal(c) ==
  CASE c = "0" -> 0 [] c = "1" -> 1 [] c = "2" -> 2 [] c = "3" -> 3
    [] c = "4" -> 4 [] c = "5" -> 5 [] c = "6" -> 6 [] c = "7" -> 7
    [] c = "8" -> 8 [] c = "9" -> 9

DigitChar(d) == <<"0", "1", "2", "3", "4", "5", "6", "7", "8", "9">>[d + 1]

RECURSIVE TrimStart(_)
TrimStart(s) ==
  IF s # <<>> /\ IsWhiteSpace(Head(s)) THEN TrimStart(Tail(s)) ELSE s

RECURSIVE TrimEnd(_)
TrimEnd(s) ==
  IF s # <<>> /\ IsWhiteSpace(s[Len(s)])
    THEN TrimEnd(SubSeq(s, 1, Len(s) - 1))
    ELSE s

\* String.prototype.trim
trim(s) == TrimEnd(TrimStart(s))

\* Mutant of includes: only a prefix is recognised.
includes_prefix(s, t) == Len(t) <= Len(s) /\ SubSeq(s, 1, Len(t)) = t

\* String.prototype.includes: s contains t as a contiguous substring
includes(s, t) ==
  \E i \in 1..(Len(s) - Len(t) + 1) : SubSeq(s, i, i + Len(t) - 1) = t

\* Number.prototype.toString of a non-negative integer (symbol + idx)
RECURSIVE NumToString(_)
NumToString(n) ==
  IF n < 10 THEN <<DigitChar(n)>>
  ELSE NumToString(n \div 10) \o <<DigitChar(n % 10)>>

RECURSIVE Pow10(_)
Pow10(n) == IF n = 0 THEN 1 ELSE 10 * Pow10(n - 1)

\* Longest prefix of s made of digits
RECURSIVE DigitRun(_)
DigitRun(s) ==
  IF s # <<>> /\ Head(s) \in Digits THEN <<Head(s)>> \o DigitRun(Tail(s))
  ELSE <<>>

RECURSIVE DigitsValue(_)
DigitsValue(s) ==
  IF s = <<>> THEN 0
  ELSE 10 * DigitsValue(SubSeq(s, 1, Len(s) - 1)) + DigitVal(s[Len(s)])

NaN == [nan |-> TRUE, mant |-> 0, frac |-> 0]
Num(m, f) == [nan |-> FALSE, mant |-> m, frac |-> f]

\* parseFloat: skips leading white space, then reads the longest prefix
\* sign? digits [. digits] | sign? . digits; NaN when there is none.  The
\* result is mant / 10^frac.  (Exponents and "Infinity" are not read: no
\* value of the model has a digit followed by "e" or starts with "I".)
parseFloat(v) ==
  IF v = Undefined THEN NaN
  ELSE
    LET s0 == TrimStart(v)
        signed == s0 # <<>> /\ Head(s0) \in {"-", "+"}
        neg == s0 # <<>> /\ Head(s0) = "-"
        s1 == IF signed THEN Tail(s0) ELSE s0
        ip == DigitRun(s1)
        s2 == SubSeq(s1, Len(ip) + 1, Len(s1))
        fp == IF s2 # <<>> /\ Head(s2) = "." THEN DigitRun(Tail(s2)) ELSE <<>>
        m == DigitsValue(ip \o fp)
    IN IF ip = <<>> /\ fp = <<>> THEN NaN
       ELSE Num(IF neg THEN 0 - m ELSE m, Len(fp))

isNaN(n) == n.nan

\* n || 0 for a number n: NaN and 0 are falsy
NumOrZero(n) == IF n.nan \/ n.mant = 0 THEN Num(0, 0) ELSE n

\* sign of a - b for two numbers (neither NaN)
NumCompare(a, b) ==
  LET x == a.mant * Pow10(b.frac)
      y == b.mant * Pow10(a.frac)
  IN IF x < y THEN -1 ELSE IF x > y THEN 1 ELSE 0

-----------------------------------------------------------------------------
(* The two data sources of the table variant.                              *)

T_1 == <<"1">>
T_2 == <<"2">>
T_11 == <<"1", "1">>
T_sp1 == <<" ", "1">>
T_1sp == <<"1", " ">>
T_blank == <<" ", " ">>
T_a == <<"a">>
T_b == <<"b">>
T_ab == <<"a", "b">>
T_abc == <<"a", "b", "c">>
T_0 == <<"0">>
T_7 == <<"7">>
T_8 == <<"8">>
T_9 == <<"9">>
T_100 == <<"1", "0", "0">>
T_m50 == <<"-", "5", "0">>
T_spm50 == <<" ", "-", "5", "0">>
T_null == <<"n", "u", "l", "l">>
T_undefined == <<"u", "n", "d", "e", "f", "i", "n", "e", "d">>

OwnRec(sym, name, pct) ==
  [symbol |-> sym, company_name |-> name, foreign_ownership |-> pct,
   max_allowed |-> pct, investor_limit |-> pct]

\* Records of /foreign_ownership_data.json.  symbol is always present and
\* non-blank (it is the required join key) but may carry white space; the
\* other properties may be empty or missing.
OwnRecords ==
  { OwnRec(T_1, T_ab, T_7),
    OwnRec(T_11, T_b, T_8),
    OwnRec(T_sp1, <<>>, T_9),
    OwnRec(T_2, Undefined, Undefined) }

RECURSIVE SeqsUpTo(_, _)
SeqsUpTo(S, n) ==
  IF n = 0 THEN {<<>>}
  ELSE LET shorter == SeqsUpTo(S, n - 1)
       IN shorter \cup {Append(q, x) : q \in {t \in shorter : Len(t) = n - 1},
                                       x \in S}

OwnPayloads == SeqsUpTo(OwnRecords, MaxOwn)

EarnCols ==
  {"company_symbol", "retained_earnings", "reinvested_earnings", "year",
   "error"}

RawEarn(sym, re, ri, yr, err) ==
  [company_symbol |-> sym, retained_earnings |-> re,
   reinvested_earnings |-> ri, year |-> yr, error |-> err]

\* Data rows as Papa.parse(header: true) hands them over: untrimmed cells,
\* Undefined for a cell the line does not have.
RawEarnRecords ==
  { RawEarn(T_1, T_100, T_7, T_2, <<>>),
    RawEarn(T_1sp, T_spm50, <<>>, T_1sp, T_a),
    RawEarn(T_11, T_abc, T_8, Undefined, Undefined),
    RawEarn(T_blank, T_9, T_9, T_9, <<>>),
    RawEarn(T_2, <<>>, T_null, <<>>, T_b) }

\* padded: the columns whose header cell carries surrounding white space, so
\* that the parsed row holds the value under the untrimmed key.
EarnPayloads ==
  {[padded |-> {}, data |-> d] : d \in SeqsUpTo(RawEarnRecords, MaxEarn)}
  \cup {[padded |-> {"company_symbol"},
         data |-> <<RawEarn(T_1, T_100, T_7, T_2, <<>>)>>],
        [padded |-> {"retained_earnings", "year"},
         data |-> <<RawEarn(T_1, T_100, T_7, T_2, <<>>)>>]}

\* row[key] of a parsed CSV row, key being a trimmed column name
RawField(payload, row, col) ==
  IF col \in payload.padded THEN Undefined ELSE row[col]

\* cleanedData of loadReinvestedEarnings: rows with a blank company_symbol are
\* dropped, then every key and every value is trimmed ('' for a falsy value).
cleanedData(payload) ==
  LET keep(row) ==
        LET cs == RawField(payload, row, "company_symbol")
        IN Truthy(cs) /\ trim(cs) # <<>>
      clean(row) ==
        [col \in EarnCols |->
           IF Truthy(row[col]) THEN trim(row[col]) ELSE <<>>]
      kept == SelectSeq(payload.data, keep)
  IN [i \in 1..Len(kept) |-> clean(kept[i])]

\* What the complete callback resolves with
loadReinvestedEarnings(payload) ==
  IF Len(payload.data) > 0 THEN cleanedData(payload) ELSE <<>>

-----------------------------------------------------------------------------
(* Reconciliation: the Promise.all callback of fetchData.                  *)

NoEarnings ==
  [retained_earnings |-> Undefined, reinvested_earnings |-> Undefined,
   year |-> Undefined, error |-> Undefined]

\* Mutant of earningsMap: an entry that exists is kept (first write wins).
RECURSIVE earningsMap_firstWins(_, _)
earningsMap_firstWins(earnings, n) ==
  IF n = 0 THEN << >>
  ELSE
    LET before == earningsMap_firstWins(earnings, n - 1)
        row == earnings[n]
        symbol == IF Truthy(row.company_symbol)
                    THEN trim(row.company_symbol) ELSE <<>>
        entry == [retained_earnings |-> OrElse(row.retained_earnings, <<>>),
                  reinvested_earnings |-> OrElse(row.reinvested_earnings, <<>>),
                  year |-> OrElse(row.year, <<>>),
                  error |-> OrElse(row.error, <<>>)]
    IN IF Truthy(symbol) /\ symbol \notin DOMAIN before
         THEN [k \in (DOMAIN before) \cup {symbol} |->
                 IF k = symbol THEN entry ELSE before[k]]
         ELSE before

\* earningsMap after the forEach over the first n earnings rows: a later row
\* with the same trimmed symbol overwrites the entry of an earlier one.
RECURSIVE earningsMap(_, _)
earningsMap(earnings, n) ==
  IF n = 0 THEN << >>
  ELSE
    LET before == earningsMap(earnings, n - 1)
        row == earnings[n]
        symbol == IF Truthy(row.company_symbol)
                    THEN trim(row.company_symbol) ELSE <<>>
        entry == [retained_earnings |-> OrElse(row.retained_earnings, <<>>),
                  reinvested_earnings |-> OrElse(row.reinvested_earnings, <<>>),
                  year |-> OrElse(row.year, <<>>),
                  error |-> OrElse(row.error, <<>>)]
    IN IF Truthy(symbol)
         THEN [k \in (DOMAIN before) \cup {symbol} |->
                 IF k = symbol THEN entry ELSE before[k]]
         ELSE before

\* Mutant of rowSymbol: the ownership symbol is looked up untrimmed.
rowSymbol_untrimmed(row) == IF Truthy(row.symbol) THEN row.symbol ELSE <<>>

\* const symbol = row.symbol ? row.symbol.toString().trim() : ""
rowSymbol(row) == IF Truthy(row.symbol) THEN trim(row.symbol) ELSE <<>>

\* mergedRow for the ownership record at 0-based position idx
mergedRow(row, idx, emap) ==
  LET symbol == rowSymbol(row)
      earningsData == IF symbol \in DOMAIN emap THEN emap[symbol]
                      ELSE NoEarnings
  IN [symbol |-> row.symbol,
      company_name |-> row.company_name,
      foreign_ownership |-> row.foreign_ownership,
      max_allowed |-> row.max_allowed,
      investor_limit |-> row.investor_limit,
      retained_earnings |-> OrElse(earningsData.retained_earnings, <<>>),
      reinvested_earnings |-> OrElse(earningsData.reinvested_earnings, <<>>),
      year |-> OrElse(earningsData.year, <<>>),
      error |-> OrElse(earningsData.error, <<>>),
      id |-> symbol \o NumToString(idx)]

mergedData(foreignOwnershipData, reinvestedEarningsData) ==
  LET emap == earningsMap(reinvestedEarningsData, Len(reinvestedEarningsData))
  IN [i \in 1..Len(foreignOwnershipData) |->
        mergedRow(foreignOwnershipData[i], i - 1, emap)]

-----------------------------------------------------------------------------
(* View derivation.                                                        *)

\* Mutant of rowPasses: both the company name and the symbol must match.
rowPasses_both(row, term) ==
  /\ Truthy(row.company_name) /\ includes(row.company_name, term)
  /\ Truthy(row.symbol) /\ includes(row.symbol, term)

\* The predicate of rows.filter: company name or symbol includes the term
rowPasses(row, term) ==
  \/ Truthy(row.company_name) /\ includes(row.company_name, term)
  \/ Truthy(row.symbol) /\ includes(row.symbol, term)

filterRows(rs, term) == SelectSeq(rs, LAMBDA row : rowPasses(row, term))

\* Mutant of sortByRetainedEarnings: aValue - bValue (ascending).
sortByRetainedEarnings_ascending(a, b) ==
  LET aValue == NumOrZero(parseFloat(a.retained_earnings))
      bValue == NumOrZero(parseFloat(b.retained_earnings))
  IN NumCompare(aValue, bValue)

\* sortByRetainedEarnings(a, b): the sign of bValue - aValue
sortByRetainedEarnings(a, b) ==
  LET aValue == NumOrZero(parseFloat(a.retained_earnings))
      bValue == NumOrZero(parseFloat(b.retained_earnings))
  IN NumCompare(bValue, aValue)

\* Mutant of insertSorted: an element also moves in front of the elements
\* the comparator ties it with.
RECURSIVE insertSorted_beforeEqual(_, _)
insertSorted_beforeEqual(sorted, x) ==
  IF sorted = <<>> THEN <<x>>
  ELSE IF sortByRetainedEarnings(sorted[Len(sorted)], x) < 0
    THEN Append(sorted, x)
  ELSE Append(insertSorted_beforeEqual(SubSeq(sorted, 1, Len(sorted) - 1), x),
              sorted[Len(sorted)])

\* Array.prototype.sort is stable (ECMAScript 2019): an element moves in front
\* of exactly the elements the comparator orders it strictly before.
RECURSIVE insertSorted(_, _)
insertSorted(sorted, x) ==
  IF sorted = <<>> THEN <<x>>
  ELSE IF sortByRetainedEarnings(sorted[Len(sorted)], x) <= 0
    THEN Append(sorted, x)
  ELSE Append(insertSorted(SubSeq(sorted, 1, Len(sorted) - 1), x),
              sorted[Len(sorted)])

\* rs.sort(sortByRetainedEarnings)
RECURSIVE sort(_)
sort(rs) ==
  IF rs = <<>> THEN <<>>
  ELSE insertSorted(sort(SubSeq(rs, 1, Len(rs) - 1)), rs[Len(rs)])

\* filteredRows of the table variant: filter, then sort
filteredRows == sort(filterRows(rows, search))

\* The derivation without the copy: rows.sort(sortByRetainedEarnings)
\* reorders the array it is called on, here rows itself.
rowsAfterDerivation_sortsInPlace(rs, term) == sort(rs)

\* The array of rows once filteredRows has been computed for the term:
\* filter returns a new array and sort reorders that array in place, so the
\* array of rows is the one it was.
rowsAfterDerivation(rs, term) == rs

\* filteredRows of the flat variants: filter only
filteredRowsFlat == filterRows(rows, search)

\* What renderCell returns for a value without data
NoDataLabel == [kind |-> "nodata", text |-> <<>>, num |-> NaN]

\* Mutant of renderCell: the text "null" is not recognised as a sentinel.
renderCell_keepsNull(value) ==
  IF ~Truthy(value) \/ value = <<>> \/ value = T_undefined
    THEN NoDataLabel
  ELSE LET numValue == parseFloat(value)
       IN IF ~isNaN(numValue)
            THEN [kind |-> "number", text |-> <<>>, num |-> numValue]
            ELSE [kind |-> "text", text |-> value, num |-> NaN]

\* renderCell of the retained_earnings and reinvested_earnings columns
renderCell(value) ==
  IF ~Truthy(value) \/ value = <<>> \/ value = T_null \/ value = T_undefined
    THEN NoDataLabel
  ELSE LET numValue == parseFloat(value)
       IN IF ~isNaN(numValue)
            THEN [kind |-> "number", text |-> <<>>, num |-> numValue]
            ELSE [kind |-> "text", text |-> value, num |-> NaN]

\* formatValue of the PDF variant: the same cases, the element it returns
\* reduced to its kind, its text and its colour
formatValue(value) ==
  IF ~Truthy(value) \/ value = <<>> \/ value = T_null \/ value = T_undefined
    THEN [kind |-> "nodata", text |-> <<>>, num |-> NaN, color |-> "#b71c1c"]
  ELSE LET numValue == parseFloat(value)
       IN IF ~isNaN(numValue)
            THEN [kind |-> "number", text |-> <<>>, num |-> numValue,
                  color |-> IF NumCompare(numValue, Num(0, 0)) < 0
                              THEN "#d32f2f"
                            ELSE IF NumCompare(numValue, Num(0, 0)) > 0
                              THEN "#2e7d32"
                            ELSE "#666"]
            ELSE [kind |-> "text", text |-> value, num |-> NaN,
                  color |-> ""]

-----------------------------------------------------------------------------
(* Table variant: state after mount and the handlers.                      *)

RemoveAt(s, i) == SubSeq(s, 1, i - 1) \o SubSeq(s, i + 1, Len(s))

\* One load of a cycle.  isArray is FALSE when the load resolved with a JSON
\* value that is not an array (it has no map method).
Unsettled == [settled |-> FALSE, data |-> <<>>, isArray |-> TRUE]
Settled(d) == [settled |-> TRUE, data |-> d, isArray |-> TRUE]
SettledNotArray == [settled |-> TRUE, data |-> <<>>, isArray |-> FALSE]
\* One fetchData call.  fetches lists the outstanding calls in the order they
\* were made; overtaken records that the callback of a call made later has
\* already run.
NewCycle == [own |-> Unsettled, earn |-> Unsettled, overtaken |-> FALSE]

\* Closing call i together with every call made before it, as a client that
\* discards superseded responses would
closeCycle_dropsEarlier(fs, i) == SubSeq(fs, i + 1, Len(fs))

\* The outstanding calls once the callback of call i has run
closeCycle(fs, i) ==
  RemoveAt([j \in 1..Len(fs) |->
              IF j < i THEN [fs[j] EXCEPT !.overtaken = TRUE] ELSE fs[j]], i)

SearchTerms == {<<>>, T_1, T_b, T_ab}

\* localStorage.getItem('pdfColumns') when nothing is stored under the key
NoItem == [present |-> FALSE, items |-> <<>>]

\* The PDF state of a variant that has none
NoPdfState ==
  /\ pdfColumns = <<>>
  /\ selectedFiles = <<>>
  /\ showUploadConfirmation = FALSE
  /\ uploading = FALSE
  /\ uploads = <<>>
  /\ stored = NoItem

\* The table state of a variant that has none
NoTableState ==
  /\ ownershipFile = <<>>
  /\ earningsCsv = [padded |-> {}, data |-> <<>>]
  /\ fetches = <<>>
  /\ rows = <<>>
  /\ search = <<>>

\* useState(null) of evidenceData, and the body GET /api/evidence/<symbol>
\* answers with: the evidence of the symbol asked for, with or without a
\* context text
NoEvidenceData == [present |-> FALSE, company_symbol |-> <<>>,
                   context |-> FALSE]
Evidence(symbol, context) ==
  [present |-> TRUE, company_symbol |-> symbol, context |-> context]

\* The evidence modal after mount: closed, nothing fetched, nothing clicked
NoEvidence ==
  /\ evidenceModalOpen = FALSE
  /\ evidenceData = NoEvidenceData
  /\ evidenceLoading = FALSE
  /\ evidenceError = FALSE
  /\ evidenceFetches = <<>>
  /\ clicked = Null
  /\ submitted = FALSE

Idle ==
  /\ NoEvidence
  /\ corrections = <<>>
  /\ resets = 0
  /\ requests = <<>>
  /\ showClearConfirmation = FALSE
  /\ userExports = <<>>
  /\ fileToDelete = Null
  /\ notices = <<>>
  /\ lastOp = [op |-> "mount"]

\* A flat or table variant after mount: useEffect(() => { fetchData(); }, [])
\* has run, so one cycle is outstanding.
Init ==
  /\ variant \in {"flat", "table"}
  /\ ownershipFile \in OwnPayloads
  /\ earningsCsv \in EarnPayloads
  /\ fetches = <<NewCycle>>
  /\ rows = <<>>
  /\ search = <<>>
  /\ loading = TRUE
  /\ Idle
  /\ NoPdfState

\* fetchData up to its two requests: setLoading(true), both loads started
fetchData ==
  /\ loading' = TRUE
  /\ fetches' = Append(fetches, NewCycle)

\* handleReset up to the await of POST /api/refresh
handleReset ==
  /\ variant \in {"flat", "table"}
  /\ Len(fetches) + resets < MaxFetches
  /\ loading' = TRUE
  /\ resets' = resets + 1
  /\ notices' = <<>>
  /\ lastOp' = [op |-> "handleReset"]
  /\ UNCHANGED <<ownershipFile, earningsCsv, fetches, rows, search,
                 corrections, pdfVars>>

RefreshOutcomes == {"success", "error", "network"}

\* handleReset after the await: fetchData() on status success, otherwise an
\* alert and setLoading(false)
handleResetSettle(outcome) ==
  /\ variant \in {"flat", "table"}
  /\ resets > 0
  /\ resets' = resets - 1
  /\ IF outcome = "success"
       THEN /\ fetchData
            /\ notices' = <<>>
       ELSE /\ loading' = FALSE
            /\ notices' = <<[kind |-> IF outcome = "error"
                                        THEN "refreshError"
                                        ELSE "refreshUnreachable"]>>
            /\ UNCHANGED fetches
  /\ lastOp' = [op |-> "handleResetSettle", outcome |-> outcome]
  /\ UNCHANGED <<ownershipFile, earningsCsv, rows, search, corrections,
                 pdfVars>>

LoadOutcomes == {"ok", "fail"}

\* What the ownership request can do: "ok" answers with the array; "fail" is
\* a rejected fetch or a body that is not JSON (the catch yields []);
\* "errorBody" is an answer, typically with a non-OK status, whose body is
\* valid JSON but not an array.  res.ok is never looked at, so res.json()
\* resolves with that value.
OwnLoadOutcomes == {"ok", "fail", "errorBody"}

\* loadForeignOwnership settles: the parsed body, or [] from the catch
loadForeignOwnershipSettle(i, outcome) ==
  /\ i \in 1..Len(fetches)
  /\ ~fetches[i].own.settled
  /\ fetches' = [fetches EXCEPT ![i].own =
                   IF outcome = "ok" THEN Settled(ownershipFile)
                   ELSE IF outcome = "errorBody" THEN SettledNotArray
                   ELSE Settled(<<>>)]
  /\ notices' = <<>>
  /\ lastOp' = [op |-> "loadForeignOwnership", outcome |-> outcome,
                cycle |-> i]
  /\ UNCHANGED <<ownershipFile, earningsCsv, rows, search, loading,
                 corrections, resets, pdfVars>>

\* loadReinvestedEarnings settles: the cleaned rows, or [] from the catch /
\* the error callback
loadReinvestedEarningsSettle(i, outcome) ==
  /\ i \in 1..Len(fetches)
  /\ ~fetches[i].earn.settled
  /\ fetches' = [fetches EXCEPT ![i].earn =
                   Settled(IF outcome = "ok"
                             THEN loadReinvestedEarnings(earningsCsv)
                             ELSE <<>>)]
  /\ notices' = <<>>
  /\ lastOp' = [op |-> "loadReinvestedEarnings", outcome |-> outcome]
  /\ UNCHANGED <<ownershipFile, earningsCsv, rows, search, loading,
                 corrections, resets, pdfVars>>

\* The callback without the barrier of Promise.all: it runs as soon as the
\* ownership load has settled, with whatever the earnings load has so far.
combine_noBarrier(i) ==
  /\ i \in 1..Len(fetches)
  /\ fetches[i].own.settled
  /\ IF fetches[i].own.isArray
       THEN /\ rows' = mergedData(fetches[i].own.data, fetches[i].earn.data)
            /\ lastOp' = [op |-> "combine", own |-> fetches[i].own.data,
                          earn |-> fetches[i].earn.data,
                          overtaken |-> fetches[i].overtaken]
       ELSE /\ rows' = rows
            /\ lastOp' = [op |-> "combineFailed", own |-> fetches[i].own.data,
                          earn |-> fetches[i].earn.data]
  /\ loading' = FALSE
  /\ fetches' = closeCycle(fetches, i)
  /\ notices' = <<>>
  /\ UNCHANGED <<ownershipFile, earningsCsv, search, corrections, resets,
                 pdfVars>>

\* The Promise.all callback: merge, setRows(mergedData), setLoading(false).
\* When the ownership value is not an array, ownershipData.map throws inside
\* the callback and the final catch only does setLoading(false).
combine(i) ==
  /\ i \in 1..Len(fetches)
  /\ fetches[i].own.settled
  /\ fetches[i].earn.settled
  /\ IF fetches[i].own.isArray
       THEN /\ rows' = mergedData(fetches[i].own.data, fetches[i].earn.data)
            /\ lastOp' = [op |-> "combine", own |-> fetches[i].own.data,
                          earn |-> fetches[i].earn.data,
                          overtaken |-> fetches[i].overtaken]
       ELSE /\ rows' = rows
            /\ lastOp' = [op |-> "combineFailed", own |-> fetches[i].own.data,
                          earn |-> fetches[i].earn.data]
  /\ loading' = FALSE
  /\ fetches' = closeCycle(fetches, i)
  /\ notices' = <<>>
  /\ UNCHANGED <<ownershipFile, earningsCsv, search, corrections, resets,
                 pdfVars>>

\* onChange of the search box
setSearch(term) ==
  /\ search' = term
  /\ search # term
  /\ rows' = IF variant = "table" THEN rowsAfterDerivation(rows, term)
                                  ELSE rows
  /\ notices' = <<>>
  /\ lastOp' = [op |-> "setSearch"]
  /\ UNCHANGED <<ownershipFile, earningsCsv, fetches, loading,
                 corrections, resets, pdfVars>>

\* company_symbol values a correction is submitted for / answered with
CorrectionSymbols == {T_1, T_sp1, T_11}

\* The updated payload of a /api/correct_retained_earnings response
UpdatedPayloads ==
  [company_symbol : CorrectionSymbols \cup {Undefined},
   retained_earnings : {T_9, Undefined},
   value : {T_8, Undefined},
   reinvested_earnings : {T_7, Undefined},
   year : {Undefined},
   error : {T_a, Undefined}]

NoUpdated ==
  [company_symbol |-> Undefined, retained_earnings |-> Undefined,
   value |-> Undefined, reinvested_earnings |-> Undefined,
   year |-> Undefined, error |-> Undefined]

\* What the await of the correction request yields: a rejected fetch / body
\* that is not JSON, or a body {status, updated?}
CorrectionResponses ==
  {[failed |-> TRUE, status |-> "", hasUpdated |-> FALSE,
    updated |-> NoUpdated]}
  \cup {[failed |-> FALSE, status |-> st, hasUpdated |-> FALSE,
         updated |-> NoUpdated] : st \in {"success", "error"}}
  \cup {[failed |-> FALSE, status |-> st, hasUpdated |-> TRUE, updated |-> u] :
         st \in {"success", "error"}, u \in UpdatedPayloads}

\* Mutant of correctionApplies: the status of the body is not looked at.
correctionApplies_anyStatus(response) ==
  /\ ~response.failed
  /\ response.hasUpdated

\* data.status === 'success' && data.updated, for a body that was received
correctionApplies(response) ==
  /\ ~response.failed
  /\ response.status = "success"
  /\ response.hasUpdated

\* The patched figure without the value property of the payload
patchedRetainedEarnings_noValue(updated) ==
  OrElse(updated.retained_earnings, <<>>)

\* updated.retained_earnings || updated.value || ''
patchedRetainedEarnings(updated) ==
  OrElse(updated.retained_earnings, OrElse(updated.value, <<>>))

\* Mutant of updateRowAfterCorrection: the symbol test is left out, every row
\* is patched.
updateRowAfterCorrection_everyRow(prevRows, updated) ==
  [i \in 1..Len(prevRows) |->
     [prevRows[i] EXCEPT
        !.retained_earnings =
           OrElse(updated.retained_earnings, OrElse(updated.value, <<>>)),
        !.reinvested_earnings = OrElse(updated.reinvested_earnings, <<>>),
        !.year = OrElse(updated.year, <<>>),
        !.error = OrElse(updated.error, <<>>)]]

\* window.updateRowAfterCorrection of the table variant, applied to prevRows
updateRowAfterCorrection(prevRows, updated) ==
  [i \in 1..Len(prevRows) |->
     LET row == prevRows[i]
     IN IF /\ Truthy(row.symbol)
           /\ Truthy(updated.company_symbol)
           /\ row.symbol = updated.company_symbol
          THEN [row EXCEPT
                  !.retained_earnings = patchedRetainedEarnings(updated),
                  !.reinvested_earnings =
                     OrElse(updated.reinvested_earnings, <<>>),
                  !.year = OrElse(updated.year, <<>>),
                  !.error = OrElse(updated.error, <<>>)]
          ELSE row]

\* onClick of the correction form up to the await of the POST:
\* setSubmitted(true), then the request for symbol, which is
\* evidenceData.company_symbol || evidenceData.symbol
submitCorrection(symbol) ==
  /\ variant = "table"
  /\ Len(corrections) < MaxCorrections
  /\ corrections' = Append(corrections, [company_symbol |-> symbol,
                                         settled |-> FALSE])
  /\ notices' = <<>>
  /\ submitted' = TRUE
  /\ lastOp' = [op |-> "submitCorrection"]
  /\ UNCHANGED <<variant, ownershipFile, earningsCsv, fetches, rows, search,
                 loading, resets, pdfColumns, selectedFiles,
                 showUploadConfirmation, uploading, uploads, stored,
                 exportVars, evidenceVars>>

\* The answer step with the patch applied to the rows as they were loaded
\* from the two sources, not to the rows of the moment
correctionSettle_loadedRows(i, response) ==
  /\ variant = "table"
  /\ i \in 1..Len(corrections)
  /\ ~corrections[i].settled
  /\ corrections' = [corrections EXCEPT ![i].settled = TRUE]
  /\ LET applies == correctionApplies(response)
         loaded == mergedData(ownershipFile,
                              loadReinvestedEarnings(earningsCsv))
     IN /\ rows' = IF applies
                     THEN updateRowAfterCorrection(loaded, response.updated)
                     ELSE rows
        /\ lastOp' = [op |-> "correctionSettle", applied |-> applies,
                      failed |-> response.failed,
                      status |-> response.status,
                      hasUpdated |-> response.hasUpdated,
                      updated |-> response.updated,
                      changed |-> {k \in 1..Len(rows) : applies}]
  /\ notices' = <<>>
  /\ UNCHANGED <<ownershipFile, earningsCsv, fetches, search, loading,
                 resets, pdfVars>>

\* onClick of the correction form after the await: the row is patched when
\* the body has status success and an updated payload; the catch is empty
correctionSettle(i, response) ==
  /\ variant = "table"
  /\ i \in 1..Len(corrections)
  /\ ~corrections[i].settled
  /\ corrections' = [corrections EXCEPT ![i].settled = TRUE]
  /\ LET applies == correctionApplies(response)
     IN /\ rows' = IF applies
                     THEN updateRowAfterCorrection(rows, response.updated)
                     ELSE rows
        /\ lastOp' = [op |-> "correctionSettle", applied |-> applies,
                      failed |-> response.failed,
                      status |-> response.status,
                      hasUpdated |-> response.hasUpdated,
                      updated |-> response.updated,
                      changed |-> {k \in 1..Len(rows) :
                                     applies /\
                                     updateRowAfterCorrection(
                                       rows, response.updated)[k] # rows[k]}]
  /\ notices' = <<>>
  /\ UNCHANGED <<ownershipFile, earningsCsv, fetches, search, loading,
                 resets, pdfVars>>

\* The cell text of a row without retained earnings
F_notAvailable == <<"n", "a">>

\* handleEvidenceClick with fetchEvidence up to its await: nothing for a row
\* without retained earnings; otherwise the modal opens, the loading flag is
\* set, the error is cleared and the request for the row's symbol starts.
\* The modal covers the grid, so a row is clicked while the modal is closed.
handleEvidenceClick(i) ==
  /\ variant = "table"
  /\ ~evidenceModalOpen
  /\ i \in 1..Len(rows)
  /\ Len(evidenceFetches) < MaxEvidenceFetches
  /\ IF Truthy(rows[i].retained_earnings)
        /\ rows[i].retained_earnings # F_notAvailable
       THEN /\ evidenceModalOpen' = TRUE
            /\ evidenceLoading' = TRUE
            /\ evidenceError' = FALSE
            /\ evidenceFetches' = Append(evidenceFetches, rows[i].symbol)
            /\ clicked' = rows[i].symbol
       ELSE UNCHANGED <<evidenceModalOpen, evidenceLoading, evidenceError,
                        evidenceFetches, clicked>>
  /\ notices' = <<>>
  /\ lastOp' = [op |-> "handleEvidenceClick"]
  /\ UNCHANGED <<variant, ownershipFile, earningsCsv, fetches, rows, search,
                 loading, corrections, resets, pdfColumns, selectedFiles,
                 showUploadConfirmation, uploading, uploads, stored,
                 exportVars, evidenceData, submitted>>

\* evidenceData after the await of fetchEvidence: setEvidenceData(data) for
\* an OK response, untouched in the catch
evidenceAfterFetch(symbol, ok, context) ==
  IF ok THEN Evidence(symbol, context) ELSE evidenceData

\* fetchEvidence after its await: the body becomes evidenceData, or the
\* error text is set for a rejected fetch or a non-OK status; finally
\* setEvidenceLoading(false)
fetchEvidenceSettle(i, ok, context) ==
  /\ variant = "table"
  /\ i \in 1..Len(evidenceFetches)
  /\ evidenceFetches' = RemoveAt(evidenceFetches, i)
  /\ evidenceData' = evidenceAfterFetch(evidenceFetches[i], ok, context)
  /\ evidenceError' = IF ok THEN evidenceError ELSE TRUE
  /\ evidenceLoading' = FALSE
  /\ notices' = <<>>
  /\ lastOp' = [op |-> "fetchEvidence", symbol |-> evidenceFetches[i],
                ok |-> ok]
  /\ UNCHANGED <<variant, ownershipFile, earningsCsv, fetches, rows, search,
                 loading, corrections, resets, pdfColumns, selectedFiles,
                 showUploadConfirmation, uploading, uploads, stored,
                 exportVars, evidenceModalOpen, clicked, submitted>>

\* onClose of the evidence modal: setEvidenceModalOpen(false)
closeEvidenceModal ==
  /\ variant = "table"
  /\ evidenceModalOpen
  /\ evidenceModalOpen' = FALSE
  /\ notices' = <<>>
  /\ lastOp' = [op |-> "closeEvidenceModal"]
  /\ UNCHANGED <<variant, ownershipFile, earningsCsv, fetches, rows, search,
                 loading, corrections, resets, pdfColumns, selectedFiles,
                 showUploadConfirmation, uploading, uploads, stored,
                 exportVars, evidenceData, evidenceLoading, evidenceError,
                 evidenceFetches, clicked, submitted>>

\* Whether the modal renders the evidence, and with it the correction form:
\* open && evidenceData && !loading, the form also needs evidenceData.context
showsEvidence == evidenceModalOpen /\ evidenceData.present /\ ~evidenceLoading
showsCorrectionForm == showsEvidence /\ evidenceData.context

\* Whether the text "correction recorded" is on screen: it is rendered next
\* to the form in both verify modes when submitted is set
showsConfirmation == showsCorrectionForm /\ submitted

\* onClick of the correction form as the modal offers it: the submission
\* is for the symbol of the evidence on screen
submitFromModal ==
  /\ showsCorrectionForm
  /\ submitCorrection(evidenceData.company_symbol)

-----------------------------------------------------------------------------
(* PDF variant: the extracted columns, upload and correction.              *)

\* Keys of col.data in the model: two of FIELD_NAMES, and "undefined", the key
\* a correction without a field property writes.
PdfKeys == {"DATE", "Saudi_ValueTraded_Individuals", "undefined"}

PdfData(date, value) ==
  [k \in PdfKeys |->
     IF k = "DATE" THEN date
     ELSE IF k = "Saudi_ValueTraded_Individuals" THEN value
     ELSE Undefined]

NoPdfData == [k \in PdfKeys |-> Undefined]

\* One entry of pdfColumns.  hasData is whether the data property is set;
\* error is Undefined until a correction writes it.
PdfColumn(name, hasData, data, shot, err) ==
  [filename |-> name, hasData |-> hasData, data |-> data,
   screenshot_path |-> shot, error |-> err]

\* col.data && !col.error
isSuccessful(col) == col.hasData /\ ~Truthy(col.error)

\* cleanFailedUploads, applied to prev
cleanFailedUploads(prev) == SelectSeq(prev, isSuccessful)

\* A property that a JSON text does not have
Absent == <<"#absent">>

\* JSON.stringify that leaves out null properties as well as undefined ones
stringifyValue_dropsNull(v) == IF v = Undefined \/ v = Null THEN Absent ELSE v

\* JSON.stringify of a property value: a property whose value is undefined is
\* left out of the text; strings and null are written
stringifyValue(v) == IF v = Undefined THEN Absent ELSE v

\* JSON.parse of a property: reading a property the text does not have gives
\* undefined
parseValue(j) == IF j = Absent THEN Undefined ELSE j

\* JSON.stringify(pdfColumns)
JSONstringify(cols) ==
  [i \in 1..Len(cols) |->
     [filename |-> stringifyValue(cols[i].filename),
      hasData |-> cols[i].hasData,
      data |-> [k \in PdfKeys |-> stringifyValue(cols[i].data[k])],
      screenshot_path |-> stringifyValue(cols[i].screenshot_path),
      error |-> stringifyValue(cols[i].error)]]

\* JSON.parse(saved)
JSONparse(items) ==
  [i \in 1..Len(items) |->
     PdfColumn(parseValue(items[i].filename), items[i].hasData,
               [k \in PdfKeys |-> parseValue(items[i].data[k])],
               parseValue(items[i].screenshot_path),
               parseValue(items[i].error))]

\* The effect on pdfColumns: localStorage.setItem('pdfColumns',
\* JSON.stringify(pdfColumns)), run after every render that changed them
setItem(cols) == [present |-> TRUE, items |-> JSONstringify(cols)]

\* The initial state of pdfColumns: saved ? JSON.parse(saved) : []
initialColumns(saved) ==
  IF saved.present THEN JSONparse(saved.items) ELSE <<>>

\* pdfColumns after a page load: the initial state, then cleanFailedUploads
\* from the mount effect
mountColumns(saved) == cleanFailedUploads(initialColumns(saved))

\* window.updateRowAfterCorrection of the PDF variant, applied to prevColumns
updatePdfColumnAfterCorrection(prevColumns, updated) ==
  [i \in 1..Len(prevColumns) |->
     LET col == prevColumns[i]
     IN IF /\ Truthy(col.filename)
           /\ Truthy(updated.filename)
           /\ col.filename = updated.filename
          THEN [col EXCEPT
                  !.hasData = TRUE,
                  !.data = [col.data EXCEPT
                              ![updated.field] = OrElse(updated.value, <<>>)],
                  !.error = OrElse(updated.error, <<>>)]
          ELSE col]

\* The updated payload of a correction response, as the PDF variant reads it
PdfUpdatedPayloads ==
  [filename : {T_a, T_b, Undefined},
   field : {"DATE", "undefined"},
   value : {T_9, Undefined},
   error : {T_ab, Undefined}]

NoPdfUpdated ==
  [filename |-> Undefined, field |-> "undefined", value |-> Undefined,
   error |-> Undefined]

PdfCorrectionResponses ==
  {[failed |-> TRUE, status |-> "", hasUpdated |-> FALSE,
    updated |-> NoPdfUpdated]}
  \cup {[failed |-> FALSE, status |-> st, hasUpdated |-> FALSE,
         updated |-> NoPdfUpdated] : st \in {"success", "error"}}
  \cup {[failed |-> FALSE, status |-> st, hasUpdated |-> TRUE, updated |-> u] :
         st \in {"success", "error"}, u \in PdfUpdatedPayloads}

\* onClick of the correction form of the PDF variant up to the await
pdfSubmitCorrection(symbol) ==
  /\ variant = "pdf"
  /\ Len(corrections) < MaxCorrections
  /\ corrections' = Append(corrections, [company_symbol |-> symbol,
                                         settled |-> FALSE])
  /\ notices' = <<>>
  /\ submitted' = TRUE
  /\ lastOp' = [op |-> "submitCorrection"]
  /\ UNCHANGED <<loading, resets, variant, ownershipFile, earningsCsv,
                 fetches, rows, search, evidenceVars, pdfColumns,
                 selectedFiles, showUploadConfirmation, uploading, uploads,
                 stored, exportVars>>

\* onClick of the correction form of the PDF variant after the await
pdfCorrectionSettle(i, response) ==
  /\ variant = "pdf"
  /\ i \in 1..Len(corrections)
  /\ ~corrections[i].settled
  /\ corrections' = [corrections EXCEPT ![i].settled = TRUE]
  /\ LET applies == correctionApplies(response)
         patched == updatePdfColumnAfterCorrection(pdfColumns,
                                                   response.updated)
     IN /\ pdfColumns' = IF applies THEN patched ELSE pdfColumns
        /\ stored' = IF applies THEN setItem(patched) ELSE stored
        /\ lastOp' = [op |-> "correctionSettle", applied |-> applies,
                      failed |-> response.failed,
                      status |-> response.status,
                      hasUpdated |-> response.hasUpdated,
                      updated |-> response.updated,
                      changed |-> {k \in 1..Len(pdfColumns) :
                                     applies /\ patched[k] # pdfColumns[k]}]
  /\ notices' = <<>>
  /\ UNCHANGED <<loading, resets, tableVars, selectedFiles,
                 showUploadConfirmation, uploading, uploads, exportVars>>

F_path == <<"/", "s">>

\* The fallback texts of the alerts: 'فشل في الاستخراج' and 'خطأ غير معروف'
F_extractionFailed == <<"x">>
F_unknownError == <<"u">>

\* Files the picker can hand over: a name, and whether file.type is
\* 'application/pdf'
FileNames == {T_a, T_b, T_ab}
Files == [name : FileNames, pdf : BOOLEAN]

\* event.target.files: up to MaxFiles files with different names
FileLists ==
  {fs \in SeqsUpTo(Files, MaxFiles) :
     \A i, j \in 1..Len(fs) : i # j => fs[i].name # fs[j].name}

\* An alert.  names is the list a selection alert joins, filename and reason
\* are those of an extraction alert, n and total those of the summary.
Notice(kind, names, filename, reason, n, total) ==
  [kind |-> kind, names |-> names, filename |-> filename, reason |-> reason,
   n |-> n, total |-> total]

\* handleFileSelection: nothing for an empty list; an alert and nothing else
\* when a name is already a column or a file is not a PDF; otherwise the
\* files become the selection and the confirmation is shown
handleFileSelection(files) ==
  /\ variant = "pdf"
  /\ ~uploading
  /\ ~showUploadConfirmation
  /\ Len(pdfColumns) <= MaxColumns
  /\ LET duplicates ==
           SelectSeq(files, LAMBDA file :
             \E i \in 1..Len(pdfColumns) : pdfColumns[i].filename = file.name)
         nonPdfFiles == SelectSeq(files, LAMBDA file : ~file.pdf)
         namesOf(fs) == [i \in 1..Len(fs) |-> fs[i].name]
     IN IF Len(files) = 0
          THEN notices' = <<>> /\ UNCHANGED <<selectedFiles,
                                             showUploadConfirmation>>
        ELSE IF Len(duplicates) > 0
          THEN /\ notices' = <<Notice("duplicates", namesOf(duplicates),
                                      <<>>, <<>>, 0, 0)>>
               /\ UNCHANGED <<selectedFiles, showUploadConfirmation>>
        ELSE IF Len(nonPdfFiles) > 0
          THEN /\ notices' = <<Notice("notPdf", namesOf(nonPdfFiles),
                                      <<>>, <<>>, 0, 0)>>
               /\ UNCHANGED <<selectedFiles, showUploadConfirmation>>
        ELSE /\ notices' = <<>>
             /\ selectedFiles' = files
             /\ showUploadConfirmation' = TRUE
  /\ lastOp' = [op |-> "handleFileSelection", files |-> files]
  /\ UNCHANGED <<tableVars, loading, corrections, resets, pdfColumns,
                 uploading, uploads, stored, exportVars>>

\* onChange of the add-more-files input of the confirmation dialog: an alert
\* and nothing else when a name is already in the selection or a file is not
\* a PDF; otherwise the files are appended to the selection
addMoreFiles(newFiles) ==
  /\ variant = "pdf"
  /\ showUploadConfirmation
  /\ LET duplicates ==
           SelectSeq(newFiles, LAMBDA file :
             \E i \in 1..Len(selectedFiles) :
               selectedFiles[i].name = file.name)
         nonPdfFiles == SelectSeq(newFiles, LAMBDA file : ~file.pdf)
         namesOf(fs) == [i \in 1..Len(fs) |-> fs[i].name]
     IN IF Len(newFiles) = 0
          THEN notices' = <<>> /\ UNCHANGED selectedFiles
        ELSE IF Len(duplicates) > 0
          THEN /\ notices' = <<Notice("duplicates", namesOf(duplicates),
                                      <<>>, <<>>, 0, 0)>>
               /\ UNCHANGED selectedFiles
        ELSE IF Len(nonPdfFiles) > 0
          THEN /\ notices' = <<Notice("notPdf", namesOf(nonPdfFiles),
                                      <<>>, <<>>, 0, 0)>>
               /\ UNCHANGED selectedFiles
        ELSE /\ notices' = <<>>
             /\ selectedFiles' = selectedFiles \o newFiles
  /\ lastOp' = [op |-> "addMoreFiles", files |-> newFiles]
  /\ UNCHANGED <<tableVars, loading, corrections, resets, pdfColumns,
                 showUploadConfirmation, uploading, uploads, stored,
                 exportVars>>

\* cancelUpload
cancelUpload ==
  /\ variant = "pdf"
  /\ showUploadConfirmation
  /\ showUploadConfirmation' = FALSE
  /\ selectedFiles' = <<>>
  /\ notices' = <<>>
  /\ lastOp' = [op |-> "cancelUpload"]
  /\ UNCHANGED <<tableVars, loading, corrections, resets, pdfColumns,
                 uploading, uploads, stored, exportVars>>

\* handleFileUpload up to the await of the POST: the confirm button is
\* enabled when nothing is uploading and files are selected
handleFileUpload ==
  /\ variant = "pdf"
  /\ showUploadConfirmation
  /\ ~uploading
  /\ Len(selectedFiles) > 0
  /\ uploading' = TRUE
  /\ showUploadConfirmation' = FALSE
  /\ uploads' = Append(uploads, [files |-> selectedFiles])
  /\ notices' = <<>>
  /\ lastOp' = [op |-> "handleFileUpload"]
  /\ UNCHANGED <<tableVars, loading, corrections, resets, pdfColumns,
                 selectedFiles, stored, exportVars>>

\* One element of result.results for the uploaded file named name
FileResult(name, success, hasData, data, paths, err) ==
  [filename |-> name, success |-> success, hasData |-> hasData,
   data |-> data, screenshot_paths |-> paths, error |-> err]

\* What the server can answer for one file: extracted with and without a
\* screenshot, failed with and without a reason, flagged successful without
\* data
FileResults(name) ==
  { FileResult(name, TRUE, TRUE, PdfData(T_1, T_100), <<F_path>>, Undefined),
    FileResult(name, TRUE, TRUE, PdfData(T_2, T_m50), <<>>, Undefined),
    FileResult(name, FALSE, FALSE, NoPdfData, <<>>, T_ab),
    FileResult(name, FALSE, TRUE, PdfData(T_2, <<>>), <<>>, Undefined),
    FileResult(name, TRUE, FALSE, NoPdfData, <<>>, Undefined) }

\* The result lists for the uploaded files, one result per file in order
RECURSIVE ResultLists(_)
ResultLists(files) ==
  IF files = <<>> THEN {<<>>}
  ELSE {<<r>> \o rest : r \in FileResults(Head(files).name),
                        rest \in ResultLists(Tail(files))}

\* What the await of the upload yields: a rejected fetch / a body that is
\* not JSON (failed), a body without success, or a body with the results.
\* successful_uploads is the number of results flagged successful.
UploadResponses(files) ==
  {[failed |-> TRUE, success |-> FALSE, error |-> T_abc, results |-> <<>>,
    successful_uploads |-> 0, total_files |-> 0]}
  \cup {[failed |-> FALSE, success |-> FALSE, error |-> e, results |-> <<>>,
         successful_uploads |-> 0, total_files |-> Len(files)] :
          e \in {T_ab, Undefined}}
  \cup {[failed |-> FALSE, success |-> TRUE, error |-> Undefined,
         results |-> rs,
         successful_uploads |->
           Cardinality({i \in 1..Len(rs) : rs[i].success}),
         total_files |-> Len(files)] : rs \in ResultLists(files)}

\* Whether the forEach of handleFileUpload pushes a column for fileResult
isExtracted(fileResult) == fileResult.success /\ fileResult.hasData

\* Mutant of newColumns: one failed result discards the whole batch.
newColumns_allOrNothing(results) ==
  IF \A i \in 1..Len(results) : isExtracted(results[i])
    THEN [i \in 1..Len(results) |->
            PdfColumn(results[i].filename, TRUE, results[i].data,
                      IF Len(results[i].screenshot_paths) > 0
                        THEN results[i].screenshot_paths[1] ELSE Null,
                      Undefined)]
    ELSE <<>>

\* newColumns after the forEach over result.results
newColumns(results) ==
  LET extracted == SelectSeq(results, isExtracted)
  IN [i \in 1..Len(extracted) |->
        PdfColumn(extracted[i].filename, TRUE, extracted[i].data,
                  IF Len(extracted[i].screenshot_paths) > 0
                    THEN extracted[i].screenshot_paths[1] ELSE Null,
                  Undefined)]

\* The alerts of the forEach over result.results, one per result without a
\* pushed column
extractionAlerts(results) ==
  LET failed == SelectSeq(results, LAMBDA r : ~isExtracted(r))
  IN [i \in 1..Len(failed) |->
        Notice("extractionFailed", <<>>, failed[i].filename,
               OrElse(failed[i].error, F_extractionFailed), 0, 0)]

\* handleFileUpload after the await
handleFileUploadSettle(response) ==
  /\ variant = "pdf"
  /\ Len(uploads) > 0
  /\ response \in UploadResponses(Head(uploads).files)
  /\ uploads' = Tail(uploads)
  /\ LET added == IF ~response.failed /\ response.success
                    THEN newColumns(response.results) ELSE <<>>
     IN /\ pdfColumns' = IF Len(added) > 0 THEN pdfColumns \o added
                                           ELSE pdfColumns
        /\ stored' = IF Len(added) > 0 THEN setItem(pdfColumns \o added)
                                       ELSE stored
        /\ notices' =
             IF response.failed
               THEN <<Notice("uploadFailed", <<>>, <<>>, response.error,
                             0, 0)>>
             ELSE IF response.success
               THEN extractionAlerts(response.results)
                    \o (IF response.successful_uploads > 0
                          THEN <<Notice("summary", <<>>, <<>>, <<>>,
                                        response.successful_uploads,
                                        response.total_files)>>
                          ELSE <<>>)
             ELSE <<Notice("uploadFailed", <<>>, <<>>,
                           OrElse(response.error, F_unknownError), 0, 0)>>
  /\ uploading' = FALSE
  /\ selectedFiles' = <<>>
  /\ lastOp' = [op |-> "handleFileUploadSettle", response |-> response]
  /\ UNCHANGED <<tableVars, loading, corrections, resets,
                 showUploadConfirmation, exportVars>>

\* An alert that carries no name and no count
Alert(kind) == Notice(kind, <<>>, <<>>, <<>>, 0, 0)

\* handleReset of the PDF variant up to the await of POST /api/refresh:
\* setLoading(true) and cleanFailedUploads(); the effect on pdfColumns
\* writes the filtered collection to localStorage
pdfHandleReset ==
  /\ variant = "pdf"
  /\ resets < MaxFetches
  /\ loading' = TRUE
  /\ resets' = resets + 1
  /\ pdfColumns' = cleanFailedUploads(pdfColumns)
  /\ stored' = setItem(cleanFailedUploads(pdfColumns))
  /\ notices' = <<>>
  /\ lastOp' = [op |-> "handleReset"]
  /\ UNCHANGED <<tableVars, corrections, selectedFiles,
                 showUploadConfirmation, uploading, uploads, exportVars>>

\* handleReset of the PDF variant after the await: an alert in each of the
\* three branches, setLoading(false) in the two failing ones only
pdfHandleResetSettle(outcome) ==
  /\ variant = "pdf"
  /\ resets > 0
  /\ resets' = resets - 1
  /\ loading' = IF outcome = "success" THEN loading ELSE FALSE
  /\ notices' = <<Alert(IF outcome = "success" THEN "refreshDone"
                        ELSE IF outcome = "error" THEN "refreshError"
                        ELSE "refreshUnreachable")>>
  /\ lastOp' = [op |-> "handleResetSettle", outcome |-> outcome]
  /\ UNCHANGED <<tableVars, corrections, pdfColumns, selectedFiles,
                 showUploadConfirmation, uploading, uploads, stored,
                 exportVars>>

\* A request awaiting its response: data is the body of an export, filename
\* the file of a delete, n the number of columns a clear-all removed
Request(kind, data, filename, n) ==
  [kind |-> kind, data |-> data, filename |-> filename, n |-> n]

\* What a request to the backend can end in: an OK response, a response with
\* an error status, a rejected fetch
RequestOutcomes == {"ok", "error", "network"}

\* onClick of the clear-all button: setShowClearConfirmation(true)
openClearConfirmation ==
  /\ variant = "pdf"
  /\ ~showClearConfirmation
  /\ showClearConfirmation' = TRUE
  /\ notices' = <<>>
  /\ lastOp' = [op |-> "openClearConfirmation"]
  /\ UNCHANGED <<tableVars, loading, corrections, resets, pdfColumns,
                 selectedFiles, showUploadConfirmation, uploading, uploads,
                 stored, userExports, fileToDelete, requests>>

\* onClose of the clear-all dialog and onClick of its cancel button
closeClearConfirmation ==
  /\ variant = "pdf"
  /\ showClearConfirmation
  /\ showClearConfirmation' = FALSE
  /\ notices' = <<>>
  /\ lastOp' = [op |-> "closeClearConfirmation"]
  /\ UNCHANGED <<tableVars, loading, corrections, resets, pdfColumns,
                 selectedFiles, showUploadConfirmation, uploading, uploads,
                 stored, userExports, fileToDelete, requests>>

\* handleClearAllData that waits for the backend before it touches the
\* local state
handleClearAllData_keepsColumns ==
  /\ variant = "pdf"
  /\ showClearConfirmation
  /\ Len(requests) < MaxRequests
  /\ pdfColumns' = pdfColumns
  /\ stored' = stored
  /\ requests' = Append(requests,
                        Request("clear", <<>>, <<>>, Len(pdfColumns)))
  /\ notices' = <<>>
  /\ lastOp' = [op |-> "handleClearAllData", cleared |-> Len(pdfColumns)]
  /\ UNCHANGED <<tableVars, loading, corrections, resets, selectedFiles,
                 showUploadConfirmation, uploading, uploads,
                 showClearConfirmation, userExports, fileToDelete>>

\* handleClearAllData up to the await of POST /api/clear_data:
\* setPdfColumns([]) and localStorage.removeItem('pdfColumns'); the render
\* that follows runs the effect on pdfColumns, which stores the empty list
handleClearAllData ==
  /\ variant = "pdf"
  /\ showClearConfirmation
  /\ Len(requests) < MaxRequests
  /\ pdfColumns' = <<>>
  /\ stored' = setItem(<<>>)
  /\ requests' = Append(requests,
                        Request("clear", <<>>, <<>>, Len(pdfColumns)))
  /\ notices' = <<>>
  /\ lastOp' = [op |-> "handleClearAllData", cleared |-> Len(pdfColumns)]
  /\ UNCHANGED <<tableVars, loading, corrections, resets, selectedFiles,
                 showUploadConfirmation, uploading, uploads,
                 showClearConfirmation, userExports, fileToDelete>>

\* handleClearAllData after the await: one of three alerts, then
\* setShowClearConfirmation(false)
handleClearAllDataSettle(i, outcome) ==
  /\ variant = "pdf"
  /\ i \in 1..Len(requests)
  /\ requests[i].kind = "clear"
  /\ requests' = RemoveAt(requests, i)
  /\ notices' = <<Alert(IF outcome = "ok" THEN "cleared"
                        ELSE IF outcome = "error" THEN "clearedButCsvError"
                        ELSE "clearedButUnreachable")>>
  /\ showClearConfirmation' = FALSE
  /\ lastOp' = [op |-> "handleClearAllDataSettle", outcome |-> outcome,
                cleared |-> requests[i].n]
  /\ UNCHANGED <<tableVars, loading, corrections, resets, pdfColumns,
                 selectedFiles, showUploadConfirmation, uploading, uploads,
                 stored, userExports, fileToDelete>>

\* The properties of an export row that the model keeps
ExportKeys == PdfKeys \ {"undefined"}

\* One element of exportData: each figure, or '' when it is falsy
exportRow(col) == [k \in ExportKeys |-> OrElse(col.data[k], <<>>)]

\* An export that takes every entry of the collection
exportColumns_all(cols) == cols

\* successfulColumns of handleExcelExport
exportColumns(cols) == SelectSeq(cols, isSuccessful)

\* successfulColumns of renderHierarchicalTable: the entries the table shows,
\* one table row each, in this order
displayedColumns(cols) == SelectSeq(cols, LAMBDA col : isSuccessful(col))

\* handleExcelExport of the PDF variant up to the await of the POST: an alert
\* and no request when nothing is successful, otherwise the request with
\* exportData as its body
pdfHandleExcelExport ==
  /\ variant = "pdf"
  /\ Len(requests) < MaxRequests
  /\ LET successfulColumns == exportColumns(pdfColumns)
         exportData == [i \in 1..Len(successfulColumns) |->
                          exportRow(successfulColumns[i])]
     IN IF Len(successfulColumns) = 0
          THEN /\ notices' = <<Alert("nothingToExport")>>
               /\ requests' = requests
               /\ lastOp' = [op |-> "handleExcelExport", sent |-> FALSE,
                             data |-> <<>>]
          ELSE /\ notices' = <<>>
               /\ requests' = Append(requests,
                                     Request("export", exportData, <<>>, 0))
               /\ lastOp' = [op |-> "handleExcelExport", sent |-> TRUE,
                             data |-> exportData]
  /\ UNCHANGED <<tableVars, loading, corrections, resets, pdfColumns,
                 selectedFiles, showUploadConfirmation, uploading, uploads,
                 stored, showClearConfirmation, userExports, fileToDelete>>

\* handleExcelExport after the await, in both variants: the download and the
\* refetch of the export list on an OK response (served is what the refetch
\* yields; a failed refetch leaves the list as it is), an alert on an error
\* status and on a rejected fetch
exportSettle(i, outcome, served) ==
  /\ i \in 1..Len(requests)
  /\ requests[i].kind = "export"
  /\ requests' = RemoveAt(requests, i)
  /\ IF outcome = "ok"
       THEN /\ notices' = <<>>
            /\ userExports' = served
       ELSE /\ notices' = <<Alert("exportFailed")>>
            /\ userExports' = userExports
  /\ lastOp' = [op |-> "exportSettle", outcome |-> outcome]
  /\ UNCHANGED <<tableVars, loading, corrections, resets, pdfColumns,
                 selectedFiles, showUploadConfirmation, uploading, uploads,
                 stored, showClearConfirmation, fileToDelete>>

\* handleExcelExport of the table variant up to the await of the GET
handleExcelExport ==
  /\ variant = "table"
  /\ Len(requests) < MaxRequests
  /\ requests' = Append(requests, Request("export", <<>>, <<>>, 0))
  /\ notices' = <<>>
  /\ lastOp' = [op |-> "handleExcelExport", sent |-> TRUE, data |-> <<>>]
  /\ UNCHANGED <<tableVars, loading, corrections, resets, pdfColumns,
                 selectedFiles, showUploadConfirmation, uploading, uploads,
                 stored, showClearConfirmation, userExports, fileToDelete>>

\* Removing the file named name from the export list
withoutFile(prev, name) == SelectSeq(prev, LAMBDA f : f # name)

\* handleDeleteExport of a listed file (userExports holds the filenames)
handleDeleteExport(file) ==
  /\ \E k \in 1..Len(userExports) : userExports[k] = file
  /\ fileToDelete = Null
  /\ fileToDelete' = file
  /\ notices' = <<>>
  /\ lastOp' = [op |-> "handleDeleteExport"]
  /\ UNCHANGED <<tableVars, loading, corrections, resets, pdfColumns,
                 selectedFiles, showUploadConfirmation, uploading, uploads,
                 stored, showClearConfirmation, userExports, requests>>

\* cancelDeleteExport
cancelDeleteExport ==
  /\ fileToDelete # Null
  /\ fileToDelete' = Null
  /\ notices' = <<>>
  /\ lastOp' = [op |-> "cancelDeleteExport"]
  /\ UNCHANGED <<tableVars, loading, corrections, resets, pdfColumns,
                 selectedFiles, showUploadConfirmation, uploading, uploads,
                 stored, showClearConfirmation, userExports, requests>>

\* confirmDeleteExport up to the await of the DELETE
confirmDeleteExport ==
  /\ fileToDelete # Null
  /\ Len(requests) < MaxRequests
  /\ requests' = Append(requests, Request("delete", <<>>, fileToDelete, 0))
  /\ notices' = <<>>
  /\ lastOp' = [op |-> "confirmDeleteExport"]
  /\ UNCHANGED <<tableVars, loading, corrections, resets, pdfColumns,
                 selectedFiles, showUploadConfirmation, uploading, uploads,
                 stored, showClearConfirmation, userExports, fileToDelete>>

\* confirmDeleteExport after the await: the response is not looked at, so
\* the file leaves the list on every response; a rejected fetch goes to the
\* empty catch; then the dialog is closed
deleteSettle(i, outcome) ==
  /\ i \in 1..Len(requests)
  /\ requests[i].kind = "delete"
  /\ requests' = RemoveAt(requests, i)
  /\ userExports' = IF outcome = "network" THEN userExports
                    ELSE withoutFile(userExports, requests[i].filename)
  /\ fileToDelete' = Null
  /\ notices' = <<>>
  /\ lastOp' = [op |-> "deleteSettle", outcome |-> outcome,
                filename |-> requests[i].filename]
  /\ UNCHANGED <<tableVars, loading, corrections, resets, pdfColumns,
                 selectedFiles, showUploadConfirmation, uploading, uploads,
                 stored, showClearConfirmation>>


\* Entries as localStorage may hold them from an earlier session
StoredPool ==
  { PdfColumn(T_a, TRUE, PdfData(T_1, T_100), F_path, Undefined),
    PdfColumn(T_b, TRUE, PdfData(T_2, T_m50), Null, <<>>),
    PdfColumn(T_ab, TRUE, PdfData(T_2, <<>>), Null, T_ab) }

DistinctNames(cols) ==
  \A i, j \in 1..Len(cols) : i # j => cols[i].filename # cols[j].filename

\* pdfColumns after mount: the stored entries, cleanFailedUploads applied
MountedColumns ==
  {cleanFailedUploads(s) :
     s \in {t \in SeqsUpTo(StoredPool, MaxColumns) : DistinctNames(t)}}

\* The ownership files the settled table of the correction runs was merged
\* from: distinct symbols, a padded symbol, a repeated symbol, no rows
SettledOwnership ==
  { <<OwnRec(T_1, T_ab, T_7), OwnRec(T_11, T_b, T_8)>>,
    <<OwnRec(T_sp1, <<>>, T_9), OwnRec(T_1, T_ab, T_7)>>,
    <<OwnRec(T_1, T_ab, T_7), OwnRec(T_1, T_b, T_8)>>,
    <<>> }

\* The earnings the settled table of the correction runs was merged from
SettledEarnings ==
  [padded |-> {},
   data |-> <<RawEarn(T_1, T_100, T_7, T_2, <<>>),
              RawEarn(T_11, T_abc, T_8, Undefined, Undefined)>>]

\* A table variant whose mount cycle has been applied, or a PDF variant after
\* mount; no request is outstanding.
InitCorrection ==
  /\ variant \in {"table", "pdf"}
  /\ loading = FALSE
  /\ Idle
  /\ fetches = <<>>
  /\ search = <<>>
  /\ selectedFiles = <<>>
  /\ showUploadConfirmation = FALSE
  /\ uploading = FALSE
  /\ uploads = <<>>
  /\ IF variant = "table"
       THEN /\ ownershipFile \in SettledOwnership
            /\ earningsCsv = SettledEarnings
            /\ rows = mergedData(ownershipFile,
                                 loadReinvestedEarnings(earningsCsv))
            /\ pdfColumns = <<>>
       ELSE /\ ownershipFile = <<>>
            /\ earningsCsv = [padded |-> {}, data |-> <<>>]
            /\ rows = <<>>
            /\ pdfColumns \in MountedColumns
  /\ stored = IF variant = "pdf" THEN setItem(pdfColumns) ELSE NoItem

NextCorrection ==
  \/ \E symbol \in CorrectionSymbols : submitCorrection(symbol)
  \/ \E i \in 1..Len(corrections), response \in CorrectionResponses :
       correctionSettle(i, response)
  \/ \E symbol \in CorrectionSymbols : pdfSubmitCorrection(symbol)
  \/ \E i \in 1..Len(corrections), response \in PdfCorrectionResponses :
       pdfCorrectionSettle(i, response)

SpecCorrection == InitCorrection /\ [][NextCorrection]_vars

\* The PDF variant after mount
InitPdf ==
  /\ variant = "pdf"
  /\ NoTableState
  /\ loading = FALSE
  /\ Idle
  /\ pdfColumns \in MountedColumns
  /\ stored = setItem(pdfColumns)
  /\ selectedFiles = <<>>
  /\ showUploadConfirmation = FALSE
  /\ uploading = FALSE
  /\ uploads = <<>>

NextPdf ==
  \/ \E files \in FileLists : handleFileSelection(files)
  \/ cancelUpload
  \/ handleFileUpload
  \/ \E response \in UploadResponses(IF Len(uploads) > 0
                                       THEN Head(uploads).files ELSE <<>>) :
       handleFileUploadSettle(response)

SpecPdf == InitPdf /\ [][NextPdf]_vars

\* Selecting files for an upload: the picker of the page, the picker of the
\* confirmation dialog, and closing the dialog
NextSelect ==
  \/ \E files \in FileLists : handleFileSelection(files)
  \/ \E newFiles \in FileLists : addMoreFiles(newFiles)
  \/ cancelUpload

SpecSelect == InitPdf /\ [][NextSelect]_vars

\* The selections, correction answers and export lists of the runs that
\* follow the stored collection: one PDF at a time; a rejected correction
\* and the applied corrections of the DATE of "a"; one served list
StoreFileLists == {<<[name |-> n, pdf |-> TRUE]>> : n \in {T_a, T_b}}

StoreCorrectionResponses ==
  {r \in PdfCorrectionResponses :
     \/ r.failed
     \/ /\ r.status = "success"
        /\ r.hasUpdated
        /\ r.updated.filename = T_a
        /\ r.updated.field = "DATE"
        /\ r.updated.value = T_9}

\* The answers to an upload of these runs: a rejected request, and one
\* result per file that is extracted (a screenshot for "a", none for "b")
\* or failed with a reason
StoreUploadResponses(files) ==
  {r \in UploadResponses(files) :
     \/ r.failed
     \/ /\ r.success
        /\ \A k \in 1..Len(r.results) :
             \/ ~r.results[k].success /\ ~r.results[k].hasData
             \/ /\ isExtracted(r.results[k])
                /\ Len(r.results[k].screenshot_paths) > 0
                     <=> r.results[k].filename = T_a}

StoreServedExports == {<<T_a>>}

\* Uploads, corrections, clear-all and exports of the PDF variant
NextStore ==
  \/ \E files \in StoreFileLists : handleFileSelection(files)
  \/ cancelUpload
  \/ handleFileUpload
  \/ \E response \in StoreUploadResponses(IF Len(uploads) > 0
                                            THEN Head(uploads).files
                                            ELSE <<>>) :
       handleFileUploadSettle(response)
  \/ pdfSubmitCorrection(T_a)
  \/ \E i \in 1..Len(corrections), response \in StoreCorrectionResponses :
       pdfCorrectionSettle(i, response)
  \/ openClearConfirmation
  \/ closeClearConfirmation
  \/ handleClearAllData
  \/ \E i \in 1..Len(requests), outcome \in RequestOutcomes :
       handleClearAllDataSettle(i, outcome)
  \/ pdfHandleExcelExport
  \/ \E i \in 1..Len(requests), outcome \in RequestOutcomes,
        served \in StoreServedExports :
       exportSettle(i, outcome, served)

SpecStore == InitPdf /\ [][NextStore]_vars

\* The refresh button of the PDF variant next to its uploads
NextReset ==
  \/ pdfHandleReset
  \/ \E outcome \in RefreshOutcomes : pdfHandleResetSettle(outcome)
  \/ \E files \in StoreFileLists : handleFileSelection(files)
  \/ cancelUpload
  \/ handleFileUpload
  \/ \E response \in StoreUploadResponses(IF Len(uploads) > 0
                                            THEN Head(uploads).files
                                            ELSE <<>>) :
       handleFileUploadSettle(response)

SpecReset == InitPdf /\ [][NextReset]_vars

\* Both pickers, the upload and clear-all of the PDF variant
NextBatch ==
  \/ \E files \in StoreFileLists : handleFileSelection(files)
  \/ \E newFiles \in StoreFileLists : addMoreFiles(newFiles)
  \/ cancelUpload
  \/ handleFileUpload
  \/ \E response \in StoreUploadResponses(IF Len(uploads) > 0
                                            THEN Head(uploads).files
                                            ELSE <<>>) :
       handleFileUploadSettle(response)
  \/ openClearConfirmation
  \/ closeClearConfirmation
  \/ handleClearAllData
  \/ \E i \in 1..Len(requests), outcome \in RequestOutcomes :
       handleClearAllDataSettle(i, outcome)

SpecBatch == InitPdf /\ [][NextBatch]_vars

\* The fetch cycle started at mount, over every pair of served sources
Next ==
  \/ \E i \in 1..Len(fetches), outcome \in OwnLoadOutcomes :
       loadForeignOwnershipSettle(i, outcome)
  \/ \E i \in 1..Len(fetches), outcome \in LoadOutcomes :
       loadReinvestedEarningsSettle(i, outcome)
  \/ \E i \in 1..Len(fetches) : combine(i)

Spec == Init /\ [][Next]_vars

\* The table variant after mount, over the settled sources: the mount cycle
\* is outstanding and the refresh button starts further cycles.
InitRefresh ==
  /\ variant = "table"
  /\ ownershipFile \in SettledOwnership
  /\ earningsCsv = SettledEarnings
  /\ fetches = <<NewCycle>>
  /\ rows = <<>>
  /\ search = <<>>
  /\ loading = TRUE
  /\ Idle
  /\ NoPdfState

NextRefresh ==
  \/ handleReset
  \/ \E outcome \in RefreshOutcomes : handleResetSettle(outcome)
  \/ \E i \in 1..Len(fetches), outcome \in OwnLoadOutcomes :
       loadForeignOwnershipSettle(i, outcome)
  \/ \E i \in 1..Len(fetches), outcome \in LoadOutcomes :
       loadReinvestedEarningsSettle(i, outcome)
  \/ \E i \in 1..Len(fetches) : combine(i)

SpecRefresh == InitRefresh /\ [][NextRefresh]_vars

\* The lists of saved exports the backend serves
ServedExports == {<<>>, <<T_a, T_b>>}

\* The table variant with its table loaded and the export list fetched
InitExports ==
  /\ variant = "table"
  /\ ownershipFile = <<OwnRec(T_1, T_ab, T_7), OwnRec(T_11, T_b, T_8)>>
  /\ earningsCsv = SettledEarnings
  /\ fetches = <<>>
  /\ rows = mergedData(ownershipFile, loadReinvestedEarnings(earningsCsv))
  /\ search = <<>>
  /\ loading = FALSE
  /\ corrections = <<>>
  /\ resets = 0
  /\ requests = <<>>
  /\ showClearConfirmation = FALSE
  /\ userExports \in ServedExports
  /\ fileToDelete = Null
  /\ notices = <<>>
  /\ NoEvidence
  /\ lastOp = [op |-> "mount"]
  /\ NoPdfState

\* Refresh, export and deletion of a saved export in the table variant
NextExports ==
  \/ handleReset
  \/ \E outcome \in RefreshOutcomes : handleResetSettle(outcome)
  \/ \E i \in 1..Len(fetches) : loadForeignOwnershipSettle(i, "ok")
  \/ \E i \in 1..Len(fetches) : loadReinvestedEarningsSettle(i, "ok")
  \/ \E i \in 1..Len(fetches) : combine(i)
  \/ handleExcelExport
  \/ \E i \in 1..Len(requests), outcome \in RequestOutcomes,
        served \in ServedExports :
       exportSettle(i, outcome, served)
  \/ \E file \in {T_a, T_b} : handleDeleteExport(file)
  \/ cancelDeleteExport
  \/ confirmDeleteExport
  \/ \E i \in 1..Len(requests), outcome \in RequestOutcomes :
       deleteSettle(i, outcome)

SpecExports == InitExports /\ [][NextExports]_vars

\* The answers to a correction submitted from the modal: a rejected request,
\* a body without updated of either status, and an accepted correction of
\* one of the two symbols of the table
ModalCorrectionResponses ==
  {r \in CorrectionResponses :
     \/ ~r.hasUpdated
     \/ /\ r.status = "success"
        /\ r.updated.company_symbol \in {T_1, T_11}
        /\ r.updated.retained_earnings = T_9
        /\ r.updated.value = Undefined
        /\ r.updated.reinvested_earnings = Undefined
        /\ r.updated.error = Undefined}

\* The table variant with its table of two rows loaded, the evidence modal
\* not opened yet
InitEvidence ==
  /\ variant = "table"
  /\ ownershipFile = <<OwnRec(T_1, T_ab, T_7), OwnRec(T_11, T_b, T_8)>>
  /\ earningsCsv = SettledEarnings
  /\ fetches = <<>>
  /\ rows = mergedData(ownershipFile, loadReinvestedEarnings(earningsCsv))
  /\ search = <<>>
  /\ loading = FALSE
  /\ Idle
  /\ NoPdfState

\* Opening and closing the evidence modal, the answers to its requests and
\* corrections submitted from it
NextEvidence ==
  \/ \E i \in 1..Len(rows) : handleEvidenceClick(i)
  \/ \E i \in 1..Len(evidenceFetches), ok \in BOOLEAN, context \in BOOLEAN :
       fetchEvidenceSettle(i, ok, context)
  \/ closeEvidenceModal
  \/ submitFromModal
  \/ \E i \in 1..Len(corrections), response \in ModalCorrectionResponses :
       correctionSettle(i, response)

SpecEvidence == InitEvidence /\ [][NextEvidence]_vars

\* The answers to the correction of the runs in which a refresh meets it: a
\* rejected request, and accepted corrections of symbol "1"
RaceCorrectionResponses ==
  {r \in CorrectionResponses :
     \/ r.failed
     \/ /\ r.status = "success"
        /\ r.hasUpdated
        /\ r.updated.company_symbol = T_1
        /\ r.updated.retained_earnings = T_9
        /\ r.updated.value = Undefined}

\* The table variant with its table loaded and a correction of symbol "1"
\* submitted from the evidence modal, its response still awaited
InitRace ==
  /\ variant = "table"
  /\ ownershipFile = <<OwnRec(T_1, T_ab, T_7), OwnRec(T_11, T_b, T_8)>>
  /\ earningsCsv = SettledEarnings
  /\ fetches = <<>>
  /\ rows = mergedData(ownershipFile, loadReinvestedEarnings(earningsCsv))
  /\ search = <<>>
  /\ loading = FALSE
  /\ corrections = <<[company_symbol |-> T_1, settled |-> FALSE]>>
  /\ resets = 0
  /\ requests = <<>>
  /\ showClearConfirmation = FALSE
  /\ userExports = <<>>
  /\ fileToDelete = Null
  /\ notices = <<>>
  /\ evidenceModalOpen = FALSE
  /\ evidenceData = Evidence(T_1, TRUE)
  /\ evidenceLoading = FALSE
  /\ evidenceError = FALSE
  /\ evidenceFetches = <<>>
  /\ clicked = T_1
  /\ submitted = TRUE
  /\ lastOp = [op |-> "submitCorrection"]
  /\ NoPdfState

\* Refreshes and the answer to the correction, in any order
NextRace ==
  \/ handleReset
  \/ \E outcome \in RefreshOutcomes : handleResetSettle(outcome)
  \/ \E i \in 1..Len(fetches) : loadForeignOwnershipSettle(i, "ok")
  \/ \E i \in 1..Len(fetches), outcome \in LoadOutcomes :
       loadReinvestedEarningsSettle(i, outcome)
  \/ \E i \in 1..Len(fetches) : combine(i)
  \/ \E i \in 1..Len(corrections), response \in RaceCorrectionResponses :
       correctionSettle(i, response)

SpecRace == InitRace /\ [][NextRace]_vars

\* The symbol of the record at index idx of a long ownership file, unless a
\* short symbol is placed there
FillerSymbol(idx) == <<"2">> \o NumToString(idx)

\* Ownership files of up to MaxBatch records with pairwise distinct symbols:
\* "1" at position p1 and "11" at position p11 (0: not in the file), a filler
\* everywhere else.
LongBatches ==
  UNION {
    {[i \in 1..n |->
        OwnRec(IF i = p1 THEN T_1
               ELSE IF i = p11 THEN T_11
               ELSE FillerSymbol(i - 1), T_a, T_7)] :
       p1 \in 0..n, p11 \in 0..n} :
    n \in 0..MaxBatch}

\* As Init, over the long ownership files
InitIds ==
  /\ variant \in {"flat", "table"}
  /\ ownershipFile \in LongBatches
  /\ earningsCsv = SettledEarnings
  /\ fetches = <<NewCycle>>
  /\ rows = <<>>
  /\ search = <<>>
  /\ loading = TRUE
  /\ Idle
  /\ NoPdfState

SpecIds == InitIds /\ [][Next]_vars

\* The list the grid is given: filteredRows of the variant
view == IF variant = "table" THEN filteredRows ELSE filteredRowsFlat

\* Retained earnings figures of long tables, and all figures of short ones
SortValues == {<<>>, T_100, T_abc, T_m50, T_0}
AllValues == SortValues \cup {T_null, T_undefined}

ViewValueSeqs ==
  SeqsUpTo(SortValues, MaxViewRows) \cup SeqsUpTo(AllValues, MaxOwn)

\* The ownership record at index idx of the files the view runs are merged
\* from: distinct symbols, names that are present, empty or missing
ViewOwnRec(idx) ==
  CASE idx = 0 -> OwnRec(T_1, T_ab, T_7)
    [] idx = 1 -> OwnRec(T_11, T_b, T_8)
    [] idx = 2 -> OwnRec(T_2, Undefined, Undefined)
    [] idx = 3 -> OwnRec(<<"2", "1">>, <<>>, T_9)
    [] OTHER -> OwnRec(FillerSymbol(idx), T_a, T_7)

\* Entries of the PDF variant whose cells are figures, sentinels or missing
ViewColumns ==
  { <<>>,
    <<PdfColumn(T_a, TRUE, PdfData(T_1, T_100), F_path, Undefined),
      PdfColumn(T_b, TRUE, PdfData(T_null, T_0), Null, <<>>)>>,
    <<PdfColumn(T_ab, TRUE, PdfData(<<>>, T_undefined), Null, Undefined),
      PdfColumn(T_b, TRUE, PdfData(T_abc, T_m50), Null, Undefined)>> }

\* A variant whose mount has completed: the table merged from files holding
\* the chosen figures, or the columns of the PDF variant
InitView ==
  /\ variant \in {"flat", "table", "pdf"}
  /\ loading = FALSE
  /\ Idle
  /\ fetches = <<>>
  /\ search = <<>>
  /\ selectedFiles = <<>>
  /\ showUploadConfirmation = FALSE
  /\ uploading = FALSE
  /\ uploads = <<>>
  /\ IF variant = "pdf"
       THEN /\ ownershipFile = <<>>
            /\ earningsCsv = [padded |-> {}, data |-> <<>>]
            /\ rows = <<>>
            /\ pdfColumns \in ViewColumns
       ELSE /\ \E vals \in ViewValueSeqs :
                 /\ ownershipFile = [i \in 1..Len(vals) |-> ViewOwnRec(i - 1)]
                 /\ earningsCsv =
                      [padded |-> {},
                       data |-> [i \in 1..Len(vals) |->
                                   RawEarn(ViewOwnRec(i - 1).symbol, vals[i],
                                           T_7, T_2, <<>>)]]
            /\ rows = mergedData(ownershipFile,
                                 loadReinvestedEarnings(earningsCsv))
            /\ pdfColumns = <<>>
  /\ stored = IF variant = "pdf" THEN setItem(pdfColumns) ELSE NoItem

NextView ==
  \E term \in SearchTerms : setSearch(term)

SpecView == InitView /\ [][NextView]_vars

-----------------------------------------------------------------------------
(* Properties of the reconciliation (specification Spec).                  *)

EarningsFields ==
  {"retained_earnings", "reinvested_earnings", "year", "error"}

\* The rows are the result of the cycle that was applied last
JustCombined == lastOp.op = "combine"

\* Positions of the earnings records whose trimmed company_symbol is key
MatchesOf(earn, key) ==
  {j \in 1..Len(earn) : trim(earn[j].company_symbol) = key}

JoinedOn(KeyOf(_)) ==
  JustCombined =>
    /\ Len(rows) = Len(lastOp.own)
    /\ \A i \in 1..Len(rows) :
         LET matches == MatchesOf(lastOp.earn, KeyOf(rows[i]))
         IN IF matches = {}
              THEN \A f \in EarningsFields : rows[i][f] = <<>>
              ELSE \E j \in matches :
                     \A f \in EarningsFields : rows[i][f] = lastOp.earn[j][f]

\* C1 as stated: the result of the merge has exactly |R| rows, and the four
\* earnings fields of each row equal those of an earnings record whose trimmed
\* company_symbol equals the row's symbol, or are all empty when there is no
\* such record.
C1_JoinOnRowSymbol == JoinedOn(LAMBDA row : row.symbol)

\* C1 as amended: the same, the earnings record being looked up by the row's
\* trimmed symbol.
C1_JoinOnTrimmedSymbol == JoinedOn(LAMBDA row : trim(row.symbol))

\* A merge in which a row with a padded symbol found its earnings record and
\* another row found none
C1_Witness ==
  /\ JustCombined
  /\ \E i \in 1..Len(rows) :
       /\ rows[i].symbol # trim(rows[i].symbol)
       /\ MatchesOf(lastOp.earn, trim(rows[i].symbol)) # {}
       /\ rows[i].retained_earnings # <<>>
  /\ \E i \in 1..Len(rows) :
       MatchesOf(lastOp.earn, trim(rows[i].symbol)) = {}

Max(S) == CHOOSE x \in S : \A y \in S : y <= x

\* C2: when several earnings records have the same trimmed symbol, the row
\* for that symbol carries the fields of the one that is last in input order.
C2_LastWriteWins ==
  JustCombined =>
    \A i \in 1..Len(rows) :
      LET matches == MatchesOf(lastOp.earn, trim(rows[i].symbol))
      IN Cardinality(matches) > 1 =>
           \A f \in EarningsFields :
             rows[i][f] = lastOp.earn[Max(matches)][f]

\* A merge in which two earnings records with different figures share the
\* symbol of a row
C2_Witness ==
  /\ JustCombined
  /\ \E i \in 1..Len(rows) :
       \E j, k \in MatchesOf(lastOp.earn, trim(rows[i].symbol)) :
         /\ j < k
         /\ lastOp.earn[j].retained_earnings # lastOp.earn[k].retained_earnings

-----------------------------------------------------------------------------
(* Row identity (specification SpecIds).                                   *)

\* C3: within one fetch batch, if the symbols of the ownership records are
\* pairwise distinct, the row ids (symbol concatenated with the index of the
\* record) are pairwise distinct.
C3_RowIdsUnique ==
  (/\ JustCombined
   /\ \A i, j \in 1..Len(lastOp.own) :
        i # j => lastOp.own[i].symbol # lastOp.own[j].symbol)
    => \A i, j \in 1..Len(rows) : i # j => rows[i].id # rows[j].id

-----------------------------------------------------------------------------
(* Properties of the derived view (specification SpecView).                *)

\* t occurs in s as a block of consecutive characters
Contains(s, t) ==
  \E off \in 0..(Len(s) - Len(t)) : \A k \in 1..Len(t) : s[off + k] = t[k]

\* The text of a property that may be missing
TextOf(v) == IF v = Undefined THEN <<>> ELSE v

\* The row's symbol or company name contains the term
Matches(row, term) ==
  Contains(TextOf(row.symbol), term) \/ Contains(TextOf(row.company_name), term)

\* Position in rows of the row at position j of the list v (ids are
\* distinct)
PosInRows(v, j) == CHOOSE i \in 1..Len(rows) : rows[i].id = v[j].id

\* The number a retained earnings figure of the view runs stands for, 0 for
\* an empty or non-numeric one
ExpectedNumber(x) ==
  CASE x = T_100 -> 100
    [] x = T_m50 -> -50
    [] x \in {<<>>, T_abc, T_0, T_null, T_undefined} -> 0

RetainedOf(rs) == [i \in 1..Len(rs) |-> rs[i].retained_earnings]

\* The list v holds each of the rows once
HoldsEveryRow(v) ==
  /\ Len(v) = Len(rows)
  /\ \A i \in 1..Len(rows) : \E j \in 1..Len(v) : v[j] = rows[i]

\* The list v is in descending order of the parsed figure, rows with equal
\* parsed figures in the order they have in rows
SortedStable(v) ==
  LET num == [j \in 1..Len(v) |-> ExpectedNumber(v[j].retained_earnings)]
      pos == [j \in 1..Len(v) |-> PosInRows(v, j)]
  IN \A i, j \in 1..Len(v) :
       i < j => /\ num[i] >= num[j]
                /\ num[i] = num[j] => pos[i] < pos[j]

\* C5 as stated: with an empty search term the view is the row collection,
\* every row in unchanged relative order.
C5_EmptySearchKeepsOrder ==
  (variant # "pdf" /\ search = <<>>) => view = rows

\* C5, amended: with an empty search term the view holds every row of the
\* collection; in the flat variants in unchanged order, in the table variant
\* in descending order of the parsed retained earnings, unchanged relative
\* order only among rows with equal parsed figures.
C5_EmptySearchKeepsAllRows ==
  (variant # "pdf" /\ search = <<>>) =>
    LET v == view
    IN /\ HoldsEveryRow(v)
       /\ variant = "flat" => v = rows
       /\ variant = "table" => SortedStable(v)

\* The search box has been cleared again over a table that the sort reorders
\* and that has a row without company name
C5_Witness ==
  /\ variant = "table"
  /\ search = <<>>
  /\ lastOp.op = "setSearch"
  /\ view # rows
  /\ \E i \in 1..Len(rows) : ~Truthy(rows[i].company_name)

\* C6: the view contains exactly the rows whose symbol or company name
\* contains the search term as a literal substring, each once.
C6_FilterExact ==
  variant # "pdf" =>
    LET v == view
    IN /\ \A i \in 1..Len(rows) :
            Matches(rows[i], search) <=> \E j \in 1..Len(v) : v[j] = rows[i]
       /\ \A j \in 1..Len(v) : \E i \in 1..Len(rows) : rows[i] = v[j]
       /\ \A j, k \in 1..Len(v) : j # k => v[j] # v[k]

\* A search term that one row contains only inside its company name, and
\* another row does not contain
C6_Witness ==
  /\ variant # "pdf"
  /\ lastOp.op = "setSearch"
  /\ search # <<>>
  /\ \E i \in 1..Len(rows) :
       /\ ~Contains(TextOf(rows[i].symbol), search)
       /\ Contains(TextOf(rows[i].company_name), search)
       /\ SubSeq(rows[i].company_name, 1, Len(search)) # search
  /\ \E i \in 1..Len(rows) : ~Matches(rows[i], search)

\* C7: the view of the table variant is ordered by retained_earnings parsed
\* as a number, descending, an empty or non-numeric value counting as 0, and
\* rows with equal parsed values keep their relative order.
C7_SortDescendingStable ==
  variant = "table" => SortedStable(view)

\* A sorted view in which two rows tie with a third row between them in the
\* input, and a row has moved
C7_Witness ==
  /\ variant = "table"
  /\ LET v == view
     IN /\ v # filterRows(rows, search)
        /\ \E i, j \in 1..Len(v) :
             /\ i < j
             /\ ExpectedNumber(v[i].retained_earnings)
                  = ExpectedNumber(v[j].retained_earnings)
             /\ v[i].retained_earnings # v[j].retained_earnings
             /\ PosInRows(v, j) > PosInRows(v, i) + 1

\* The rows have the retained earnings figures of the example, in its order
SortExampleInput ==
  /\ variant = "table"
  /\ search = <<>>
  /\ RetainedOf(rows) = <<<<>>, T_100, T_abc, T_m50, T_100>>

\* C8 as stated: the example input is listed as [100, 100, -50, "", "abc"].
C8_ExampleNegativeBeforeEmpty ==
  SortExampleInput => RetainedOf(view) = <<T_100, T_100, T_m50, <<>>, T_abc>>

\* C8, amended: the example input is listed as [100, 100, "", "abc", -50]:
\* the empty and the non-numeric value count as 0 and come before the
\* negative one, equal-valued rows keep input order.
C8_ExampleZeroBeforeNegative ==
  SortExampleInput =>
    LET v == view
    IN /\ RetainedOf(v) = <<T_100, T_100, <<>>, T_abc, T_m50>>
       /\ PosInRows(v, 1) = 2 /\ PosInRows(v, 2) = 5

\* The rows of the example are on display
C8_Witness == SortExampleInput /\ Len(view) = 5

\* The sentinels of a retained / reinvested earnings value without data
NoDataValues == {<<>>, T_null, T_undefined, Undefined}

\* The values the cells of the earnings columns show
Cells ==
  IF variant = "pdf"
    THEN {pdfColumns[i].data[k] : i \in 1..Len(pdfColumns), k \in PdfKeys}
    ELSE {rows[i][f] : i \in 1..Len(rows),
                       f \in {"retained_earnings", "reinvested_earnings"}}

Rendered(x) == IF variant = "pdf" THEN formatValue(x) ELSE renderCell(x)

\* Every sentinel is rendered as the no-data label, nothing else is, and the
\* formatter gives the label its own colour
RendersNoData ==
  \A x \in Cells :
    /\ Rendered(x).kind = "nodata" <=> x \in NoDataValues
    /\ x \in NoDataValues /\ variant # "pdf" => Rendered(x) = NoDataLabel
    /\ x \in NoDataValues /\ variant = "pdf" =>
         Rendered(x).color # formatValue(T_0).color

\* C9 as stated: the four sentinels are rendered as the same no-data label,
\* and the sort does not give a row without data the position of a 0: it
\* never lists such a row ahead of a row with a negative figure.
C9_NoDataNeverZero ==
  /\ RendersNoData
  /\ variant = "table" =>
       LET v == view
       IN \A i, j \in 1..Len(v) :
            (i < j /\ v[i].retained_earnings \in NoDataValues)
              => ExpectedNumber(v[j].retained_earnings) >= 0

\* C9, amended: the four sentinels are rendered as the same no-data label,
\* never as a number; the sort gives a row without data exactly the position
\* of a 0, after the positive and ahead of the negative figures.
C9_NoDataLabelSortsAsZero ==
  /\ RendersNoData
  /\ variant = "table" =>
       LET v == view
       IN \A i, j \in 1..Len(v) :
            (i < j /\ v[i].retained_earnings \in NoDataValues)
              => /\ ExpectedNumber(v[j].retained_earnings) <= 0
                 /\ sortByRetainedEarnings(v[i], v[j]) =
                      (IF ExpectedNumber(v[j].retained_earnings) < 0
                         THEN -1 ELSE 0)

\* A table whose view lists a row with the sentinel "null" ahead of a row
\* with a negative figure that precedes it in the row collection
C9_Witness ==
  /\ variant = "table"
  /\ LET v == view
     IN \E j, k \in 1..Len(v) :
          /\ j < k
          /\ v[j].retained_earnings = T_null
          /\ ExpectedNumber(v[k].retained_earnings) < 0
          /\ PosInRows(v, k) < PosInRows(v, j)

-----------------------------------------------------------------------------
(* Properties of the upload (specification SpecPdf).                       *)

\* The step is the end of an upload whose response carries a result list
UploadResultsStep ==
  /\ lastOp'.op = "handleFileUploadSettle"
  /\ uploads' # uploads
  /\ ~lastOp'.response.failed
  /\ lastOp'.response.success

\* A result that counts as successful: success flag set and data present
Successful(r) == r.success /\ r.hasData

\* C10: after an upload whose response carries per-file results, the column
\* collection is the collection before it followed by exactly the successful
\* results in response order, and every other result has its own failure
\* report with the filename and the reason, in response order.
C10_UploadPartialSuccess ==
  [][UploadResultsStep =>
       LET rs == lastOp'.response.results
           good == SelectSeq(rs, Successful)
           bad == SelectSeq(rs, LAMBDA r : ~Successful(r))
           reports == SelectSeq(notices', LAMBDA a : a.kind = "extractionFailed")
       IN /\ Len(pdfColumns') = Len(pdfColumns) + Len(good)
          /\ SubSeq(pdfColumns', 1, Len(pdfColumns)) = pdfColumns
          /\ \A i \in 1..Len(good) :
               LET col == pdfColumns'[Len(pdfColumns) + i]
               IN /\ col.filename = good[i].filename
                  /\ col.hasData
                  /\ col.data = good[i].data
          /\ Len(reports) = Len(bad)
          /\ \A i \in 1..Len(bad) :
               /\ reports[i].filename = bad[i].filename
               /\ reports[i].reason =
                    (IF bad[i].error \in {Undefined, <<>>}
                       THEN F_extractionFailed ELSE bad[i].error)]_vars

\* An upload over existing columns has ended with a result list in which a
\* failed result precedes a successful one
C10_Witness ==
  /\ lastOp.op = "handleFileUploadSettle"
  /\ ~lastOp.response.failed
  /\ lastOp.response.success
  /\ LET rs == lastOp.response.results
     IN /\ \E i, j \in 1..Len(rs) :
             i < j /\ ~Successful(rs[i]) /\ Successful(rs[j])
        /\ Len(pdfColumns) >
             Cardinality({i \in 1..Len(rs) : Successful(rs[i])})
  /\ Len(notices) >= 2

-----------------------------------------------------------------------------
(* A correction that does not succeed (specification SpecCorrection).      *)

\* The step submits a correction, or ends one whose request failed or whose
\* body lacks status "success" or the updated payload
UnsuccessfulCorrectionStep ==
  /\ corrections' # corrections
  /\ \/ lastOp'.op = "submitCorrection"
     \/ /\ lastOp'.op = "correctionSettle"
        /\ \/ lastOp'.failed
           \/ lastOp'.status # "success"
           \/ ~lastOp'.hasUpdated

\* C13: when the correction request fails at the network level, or its
\* response does not have status "success" with an updated payload, the row
\* collection and the column collection are what they were before.
C13_FailedCorrectionNoOp ==
  [][UnsuccessfulCorrectionStep =>
       /\ rows' = rows
       /\ pdfColumns' = pdfColumns
       /\ notices' = <<>>]_vars

\* A correction has ended with a body that names an entry of the collection
\* and carries new values, but not status "success"
C13_Witness ==
  /\ lastOp.op = "correctionSettle"
  /\ ~lastOp.failed
  /\ lastOp.status # "success"
  /\ lastOp.hasUpdated
  /\ IF variant = "table"
       THEN \E i \in 1..Len(rows) :
              /\ rows[i].symbol = lastOp.updated.company_symbol
              /\ rows[i].retained_earnings # lastOp.updated.retained_earnings
       ELSE \E i \in 1..Len(pdfColumns) :
              /\ pdfColumns[i].filename = lastOp.updated.filename
              /\ pdfColumns[i].data[lastOp.updated.field]
                   # lastOp.updated.value

-----------------------------------------------------------------------------
(* Properties of the file selection (specification SpecSelect).            *)

\* The step is a selection handed to one of the two pickers
SelectionStep ==
  /\ lastOp'.op \in {"handleFileSelection", "addMoreFiles"}
  /\ <<lastOp, notices, selectedFiles, showUploadConfirmation>>' #
       <<lastOp, notices, selectedFiles, showUploadConfirmation>>

\* The name is that of a queued file or of an uploaded column
Taken(name) ==
  \/ \E i \in 1..Len(selectedFiles) : selectedFiles[i].name = name
  \/ \E i \in 1..Len(pdfColumns) : pdfColumns[i].filename = name

\* The files of the selection that must not be accepted
Offending(files) ==
  SelectSeq(files, LAMBDA file : Taken(file.name) \/ ~file.pdf)

\* The names an alert of the step lists
ReportedNames ==
  UNION {{notices'[i].names[k] : k \in 1..Len(notices'[i].names)} :
           i \in 1..Len(notices')}

\* C11: if any file of a selection has a colliding name or is not a PDF, the
\* whole selection is rejected: the pending selection is unchanged, the
\* confirmation is not opened by it, and offending names are reported.
C11_RejectionAllOrNothing ==
  [][(SelectionStep /\ Len(Offending(lastOp'.files)) > 0) =>
       /\ selectedFiles' = selectedFiles
       /\ showUploadConfirmation' = showUploadConfirmation
       /\ ReportedNames # {}
       /\ ReportedNames \subseteq
            {Offending(lastOp'.files)[k].name :
               k \in 1..Len(Offending(lastOp'.files))}]_vars

\* C12: in both selection actions no file is accepted whose name is that of
\* a queued file or of an uploaded column.
C12_NoTakenNameAccepted ==
  [][SelectionStep =>
       \A k \in 1..Len(lastOp'.files) :
         Taken(lastOp'.files[k].name) =>
           /\ selectedFiles' = selectedFiles
           /\ lastOp'.files[k].name \in ReportedNames]_vars

-----------------------------------------------------------------------------
(* Properties of the fetch cycle (specification SpecRefresh).              *)

\* C14: when the ownership request fails (network error, non-OK status or
\* malformed body) the load yields the empty sequence, and the cycle ends
\* with the rows reconciled from zero ownership records.
C14_OwnershipFailureYieldsEmpty ==
  /\ (lastOp.op = "loadForeignOwnership" /\ lastOp.outcome # "ok")
       => fetches[lastOp.cycle].own = Settled(<<>>)
  /\ lastOp.op = "combineFailed" => rows = mergedData(<<>>, lastOp.earn)

\* The step ends cycle i, both of whose loads have settled, and writes the
\* rows merged from the two results of that cycle
WritesJoinedCycle(i) ==
  /\ fetches[i].own.settled
  /\ fetches[i].earn.settled
  /\ fetches' = closeCycle(fetches, i)
  /\ rows' = mergedData(fetches[i].own.data, fetches[i].earn.data)

\* C15: the row collection is written only by the step that ends a cycle
\* whose ownership load and earnings load have both settled, and then with
\* the rows merged from both results; while a cycle has only one load
\* settled, no step writes the rows from it.
C15_JoinBarrier ==
  [][/\ rows' # rows
          => \E i \in 1..Len(fetches) : WritesJoinedCycle(i)
     /\ (lastOp'.op = "combine" /\ fetches' # fetches)
          => \E i \in 1..Len(fetches) : WritesJoinedCycle(i)]_vars

\* A refresh cycle has replaced the rows with the merge of a non-empty
\* ownership result and a non-empty earnings result.
C15_Witness ==
  /\ lastOp.op = "combine"
  /\ Len(lastOp.own) > 0
  /\ Len(lastOp.earn) > 0
  /\ rows = mergedData(lastOp.own, lastOp.earn)
  /\ \E i \in 1..Len(rows) : rows[i].retained_earnings = T_100

\* C22: no outstanding fetch cycle is cancelled or discarded: a cycle leaves
\* the outstanding ones only when its own callback runs, one at a time; and
\* every callback that runs writes the rows of its own cycle, also when a
\* cycle started later has been applied before it, so the rows are those of
\* the cycle applied last.
C22_LastAppliedWins ==
  [][/\ Len(fetches') < Len(fetches) =>
          /\ lastOp'.op \in {"combine", "combineFailed"}
          /\ Len(fetches') = Len(fetches) - 1
     /\ (lastOp'.op = "combine" /\ fetches' # fetches) =>
          /\ rows' = mergedData(lastOp'.own, lastOp'.earn)
          /\ \E i \in 1..Len(fetches) :
               /\ fetches[i].own.data = lastOp'.own
               /\ fetches[i].earn.data = lastOp'.earn
               /\ fetches[i].overtaken = lastOp'.overtaken]_vars

\* Two cycles overlapped; the one started later was applied first, and the
\* one started earlier, whose ownership load had failed, has now been
\* applied last and has emptied the table.
C22_Witness ==
  /\ lastOp.op = "combine"
  /\ lastOp.overtaken
  /\ fetches = <<>>
  /\ Len(ownershipFile) > 0
  /\ lastOp.own = <<>>
  /\ rows = <<>>

-----------------------------------------------------------------------------
(* A refresh against a pending correction (specification SpecRace).        *)

\* The row is one the correction of the step is aimed at
Targeted(row, updated) ==
  /\ Truthy(row.symbol)
  /\ Truthy(updated.company_symbol)
  /\ row.symbol = updated.company_symbol

\* C21: a refresh and a pending correction are not ordered.  The patch of
\* the correction is applied to the row collection as it is when the
\* response arrives, also when a refresh has replaced it in between, and a
\* refresh that is applied after the patch replaces the rows by what the
\* two sources give, without the corrected value: which of the two is
\* applied last decides what the row of the corrected symbol shows.
C21_LastAppliedDecides ==
  [][/\ (lastOp'.op = "correctionSettle" /\ lastOp'.applied) =>
          /\ Len(rows') = Len(rows)
          /\ \A i \in 1..Len(rows) :
               IF Targeted(rows[i], lastOp'.updated)
                 THEN rows'[i].retained_earnings =
                        lastOp'.updated.retained_earnings
                 ELSE rows'[i] = rows[i]
     /\ lastOp'.op = "combine" =>
          /\ rows' = mergedData(lastOp'.own, lastOp'.earn)
          /\ \A i \in 1..Len(rows') : rows'[i].retained_earnings # T_9]_vars

\* The correction of symbol "1" has been applied to a row collection that a
\* refresh replaced while the correction was pending: the row of "11" shows
\* the empty figure of a refresh whose earnings load failed.
C21_Witness ==
  /\ lastOp.op = "correctionSettle"
  /\ lastOp.applied
  /\ \E i \in 1..Len(rows) :
       rows[i].symbol = T_1 /\ rows[i].retained_earnings = T_9
  /\ \E i \in 1..Len(rows) :
       rows[i].symbol = T_11 /\ rows[i].retained_earnings = <<>>

-----------------------------------------------------------------------------
(* Purity of the view derivation (specification SpecView).                 *)

-----------------------------------------------------------------------------
(* Properties of the requests of the table variant (SpecExports).          *)

\* The handler that ran last is the end of a refresh, export or delete
\* request that failed: an error response or no connection
RequestFailed ==
  \/ lastOp.op = "handleResetSettle" /\ lastOp.outcome \in {"error", "network"}
  \/ lastOp.op = "exportSettle" /\ lastOp.outcome \in {"error", "network"}
  \/ lastOp.op = "deleteSettle" /\ lastOp.outcome \in {"error", "network"}

\* C19: every failure of a refresh, an export or a delete-export request
\* puts a notice on the screen.
C19_FailuresAreReported == RequestFailed => notices # <<>>

\* C28: the answer to a delete request that did not succeed (an error status
\* or a network failure) leaves the list of saved exports as it was; the
\* entry is still listed.
C28_FailedDeleteKeepsEntry ==
  [][(lastOp'.op = "deleteSettle" /\ lastOp'.outcome # "ok") =>
       userExports' = userExports]_vars

-----------------------------------------------------------------------------
(* Properties of the stored collection (specification SpecStore).          *)

\* The step is handleClearAllData up to its request
ClearStep ==
  /\ lastOp'.op = "handleClearAllData"
  /\ requests' # requests

\* The step is handleClearAllData from the answer of the backend on
ClearSettleStep ==
  /\ lastOp'.op = "handleClearAllDataSettle"
  /\ requests' # requests

\* C16: handleClearAllData empties the local collection before the backend
\* is asked; whatever the backend answers (OK, error status, no connection)
\* the answer leaves the collection as it is, and an answer other than OK
\* raises an alert that says so.
C16_ClearAllIsLocal ==
  [][/\ ClearStep => pdfColumns' = <<>>
     /\ ClearSettleStep =>
          /\ pdfColumns' = pdfColumns
          /\ Len(notices') = 1
          /\ lastOp'.outcome = "error"
               => notices'[1].kind = "clearedButCsvError"
          /\ lastOp'.outcome = "network"
               => notices'[1].kind = "clearedButUnreachable"]_vars

\* A clear-all that removed columns has been answered with a failure: the
\* collection is empty and the failure is on the screen.
C16_Witness ==
  /\ lastOp.op = "handleClearAllDataSettle"
  /\ lastOp.outcome # "ok"
  /\ lastOp.cleared > 0
  /\ pdfColumns = <<>>
  /\ notices # <<>>
  /\ notices[1].kind \in {"clearedButCsvError", "clearedButUnreachable"}

\* C17: the rows sent to the backend export call are the rows the table
\* shows (the entries with data and without an extraction error), one each
\* and in the order of the table; an entry that is not shown is not sent, and
\* when the table shows nothing no request is made.
C17_ExportMatchesDisplay ==
  [][lastOp'.op = "handleExcelExport" =>
       LET shown == displayedColumns(pdfColumns)
       IN IF Len(shown) = 0
            THEN requests' = requests /\ ~lastOp'.sent
            ELSE /\ Len(requests') = Len(requests) + 1
                 /\ LET sent == requests'[Len(requests')]
                    IN /\ sent.kind = "export"
                       /\ Len(sent.data) = Len(shown)
                       /\ \A i \in 1..Len(shown) :
                            sent.data[i] = exportRow(shown[i])]_vars

\* An export has been sent from a collection that holds a failed entry next
\* to successful ones.
C17_Witness ==
  /\ lastOp.op = "handleExcelExport"
  /\ lastOp.sent
  /\ Len(lastOp.data) >= 1
  /\ Len(lastOp.data) < Len(pdfColumns)
  /\ \E i \in 1..Len(pdfColumns) : Truthy(pdfColumns[i].error)
  /\ \E i \in 1..Len(requests) : requests[i].data = lastOp.data

\* C18: at every point of a run of uploads, corrections and clear-all
\* actions the item stored under pdfColumns deserializes to the current
\* collection, and a page load from it starts with the successful entries
\* of the current collection.
C18_StoredRoundTrip ==
  /\ stored.present
  /\ JSONparse(stored.items) = pdfColumns
  /\ mountColumns(stored) = SelectSeq(pdfColumns, isSuccessful)

\* The stored item holds, after an upload and a correction, a column without
\* a screenshot and a column that a correction has marked as failed.
C18_Witness ==
  /\ lastOp.op \in {"correctionSettle", "handleFileUploadSettle"}
  /\ stored.present
  /\ \E i \in 1..Len(stored.items) : stored.items[i].screenshot_path = Null
  /\ \E i \in 1..Len(stored.items) : stored.items[i].error = T_ab
  /\ \E i \in 1..Len(stored.items) : stored.items[i].error = Absent
  /\ Len(mountColumns(stored)) < Len(pdfColumns)

-----------------------------------------------------------------------------
(* Properties of selections, uploads and clear-all (specification         *)
(* SpecBatch).                                                             *)

\* C24: after any sequence of file selections, add-more selections, uploads
\* and clear-all, no two entries of pdfColumns carry the same filename.
C24_FilenamesUnique == DistinctNames(pdfColumns)

\* C30: an upload that is in flight when clear-all empties pdfColumns adds
\* no entries when its response arrives next; pdfColumns stays empty.
C30_ClearedStaysEmpty ==
  [][(/\ lastOp.op = "handleClearAllData"
      /\ Len(uploads) > 0
      /\ lastOp'.op = "handleFileUploadSettle") =>
       pdfColumns' = <<>>]_vars

-----------------------------------------------------------------------------
(* Properties of the loading flag (specifications SpecReset, SpecRefresh). *)

\* C26: once every reset and every fetch cycle it started has settled,
\* loading is false again.
C26_LoadingReleased == (resets = 0 /\ fetches = <<>>) => ~loading

\* C27: while a fetch cycle is outstanding, loading is true.
C27_LoadingCoversFetches == fetches # <<>> => loading

-----------------------------------------------------------------------------
(* Properties of the evidence modal (specification SpecEvidence).          *)

\* C25: whenever the modal shows evidence and is not loading, the evidence
\* is that of the row clicked last, and so is the target of a correction
\* submitted from the modal.
C25_EvidenceOfLastClick ==
  /\ showsEvidence => evidenceData.company_symbol = clicked
  /\ (lastOp.op = "submitCorrection" /\ corrections # <<>>) =>
       corrections[Len(corrections)].company_symbol = clicked

\* C29: the text "correction recorded" comes on screen only with the answer
\* to a submission that the backend accepted with status "success".
C29_ConfirmationOnlyWhenAccepted ==
  [][(~showsConfirmation /\ showsConfirmation') =>
       /\ lastOp'.op = "correctionSettle"
       /\ ~lastOp'.failed
       /\ lastOp'.status = "success"]_vars

-----------------------------------------------------------------------------
(* Properties of the correction patch (specification SpecCorrection).      *)

OwnershipFields ==
  {"symbol", "company_name", "foreign_ownership", "max_allowed",
   "investor_limit", "id"}

\* The step is a correction whose response is applied to the collection
PatchStep ==
  /\ lastOp'.op = "correctionSettle"
  /\ lastOp'.applied
  /\ corrections' # corrections

TablePatchIsolated ==
  /\ Len(rows') = Len(rows)
  /\ \A i \in 1..Len(rows) :
       /\ rows[i].symbol # lastOp'.updated.company_symbol
            => rows'[i] = rows[i]
       /\ \A f \in OwnershipFields : rows'[i][f] = rows[i][f]

PdfPatchIsolated ==
  /\ Len(pdfColumns') = Len(pdfColumns)
  /\ \A i \in 1..Len(pdfColumns) :
       /\ pdfColumns[i].filename # lastOp'.updated.filename
            => pdfColumns'[i] = pdfColumns[i]
       /\ pdfColumns'[i].filename = pdfColumns[i].filename

\* C4: applying a successful correction for symbol S leaves every row whose
\* symbol differs from S identical and changes at most retained_earnings,
\* reinvested_earnings, year and error of a matched row; in the PDF variant
\* only the entry whose filename matches changes.
C4_PatchIsolation ==
  [][PatchStep =>
       IF variant = "table"
         THEN TablePatchIsolated /\ UNCHANGED pdfColumns
         ELSE PdfPatchIsolated /\ UNCHANGED rows]_vars

\* A correction has just changed some entries of a collection and left
\* another entry, with another key, as it was
C4_Witness ==
  /\ lastOp.op = "correctionSettle"
  /\ lastOp.applied
  /\ lastOp.changed # {}
  /\ LET n == IF variant = "table" THEN Len(rows) ELSE Len(pdfColumns)
     IN (1..n) \ lastOp.changed # {}

\* The value the payload gives for a field, or the empty string when the
\* payload has no such field
GivenOrEmpty(v) == IF v = Undefined THEN <<>> ELSE v

\* C23 as stated: an applied correction matches at most one row, and each of
\* the four fields of that row holds what the payload gives for that field,
\* or the empty string when the payload omits the field.
C23_PatchFromOwnField ==
  [][(PatchStep /\ variant = "table") =>
       LET u == lastOp'.updated
           matched == {i \in 1..Len(rows) : Targeted(rows[i], u)}
       IN /\ Cardinality(matched) <= 1
          /\ \A i \in matched :
               /\ rows'[i].retained_earnings = GivenOrEmpty(u.retained_earnings)
               /\ rows'[i].reinvested_earnings =
                    GivenOrEmpty(u.reinvested_earnings)
               /\ rows'[i].year = GivenOrEmpty(u.year)
               /\ rows'[i].error = GivenOrEmpty(u.error)]_vars

\* C23, amended: an applied correction patches every row whose symbol equals
\* the target; retained_earnings becomes the payload's retained_earnings,
\* or else its value property, or else the empty string, and the three
\* other fields become the payload's field or the empty string.
C23_PatchValues ==
  [][(PatchStep /\ variant = "table") =>
       LET u == lastOp'.updated
       IN \A i \in 1..Len(rows) :
            Targeted(rows[i], u) =>
              /\ rows'[i].retained_earnings =
                   (IF Truthy(u.retained_earnings) THEN u.retained_earnings
                    ELSE IF Truthy(u.value) THEN u.value
                    ELSE <<>>)
              /\ rows'[i].reinvested_earnings =
                   (IF Truthy(u.reinvested_earnings)
                      THEN u.reinvested_earnings ELSE <<>>)
              /\ rows'[i].year = (IF Truthy(u.year) THEN u.year ELSE <<>>)
              /\ rows'[i].error = (IF Truthy(u.error) THEN u.error ELSE <<>>)]_vars

\* A correction whose payload has no retained_earnings but a value has been
\* applied, and the row of the target shows that value.
C23_Witness ==
  /\ lastOp.op = "correctionSettle"
  /\ lastOp.applied
  /\ variant = "table"
  /\ lastOp.updated.retained_earnings = Undefined
  /\ lastOp.updated.value = T_8
  /\ \E i \in 1..Len(rows) :
       /\ rows[i].symbol = lastOp.updated.company_symbol
       /\ rows[i].retained_earnings = T_8

=============================================================================
